---- MODULE Spec2Model ----
(***************************************************************************)
(* A model of the timetable conversion engine of pdf_timetable2json        *)
(* (src/src/app/csv_parser.py): the weekday column mapper, the row         *)
(* classifier, the cell parser, the duplicate-course splitter and the      *)
(* schedule aggregator, as CSVParser.parse_to_json runs them.              *)
(*                                                                         *)
(* Text.  A Python str is a sequence of one-character tokens.  The CJK     *)
(* characters of the source are written as ASCII tokens:                   *)
(*   "xing" "qi" = the two characters of the word for weekday, followed    *)
(*   by "yi" "er" "san" "si" "wu" (one .. five);                           *)
(*   "ban" "hui" = class meeting; "yang" "guang" "ti" "yu" = sunshine      *)
(*   sports; "chu" / "gao" = the junior / senior grade markers;            *)
(*   "FW(" "FW)" = the full-width brackets U+FF08 / U+FF09, "(" ")" the    *)
(*   ASCII ones; "mid" = the middle dot U+00B7; "ji" = the second          *)
(*   character of the header label of column 0.                            *)
(* Every other token ("a", "b", "t", "n", "1", ".", " ", "\n") is itself.  *)
(*                                                                         *)
(* Optional[T] is a sequence of length at most one: None is << >> and a    *)
(* value v is << v >>.  A dict is a function on its set of keys.  Column   *)
(* and row indices are 0-based as in the source; cell c of a row r is      *)
(* r[c + 1].                                                               *)
(***************************************************************************)
EXTENDS Naturals, Integers, Sequences, FiniteSets, TLC

VARIABLES
  pc,                    \* position of the running operation
  grid,                  \* df: the DataFrame read from the CSV file, as str() of each cell
  header_row,            \* parse_to_json: header_row
  weekday_start_cols,    \* parse_to_json: weekday_start_cols
  weekday_column_ranges, \* parse_to_json: weekday_column_ranges
  row_idx,               \* parse_to_json: the loop variable row_idx
  timetable,             \* parse_to_json: timetable
  class_count,           \* parse_to_json: class_count
  result,                \* the value parse_to_json returned (Optional)
  statistics,            \* the value get_statistics returned (Optional)
  cell_text,             \* the raw text str(row.iloc[col_idx]) of one cell
  cell_period,           \* the period the cell is walked at
  cell_next,             \* the raw text of the cell of the next column
  cell_lessons,          \* the weekday's list after the walk over the cell and the next
  period_data,           \* the value _parse_cell returned (Optional)
  split_result,          \* the value _detect_and_split_duplicate_course returned (Optional)
  formatted,             \* csv_to_json_internal: formatted_data (Optional)
  run,                   \* the number of the conversion of the grid: 1, then 2
  first_run,             \* what the first conversion gave its caller (Optional)
  route,                 \* the route of handlers.py a request is sent to
  upload,                \* request.files: the filename of the 'file' field (Optional)
  content,               \* what the uploaded file holds and how its processing goes
  files,                 \* the paths that exist in the upload folder
  temp_path,             \* the handler's temp_pdf_path / temp_csv_path (Optional)
  csv_path,              \* the handler's csv_path (Optional)
  temp_files_to_clean,   \* g.temp_files_to_clean (Optional: the attribute may be unset)
  response               \* the response of the request (Optional)

vars == << pc, grid, header_row, weekday_start_cols, weekday_column_ranges, row_idx,
           timetable, class_count, result, statistics,
           cell_text, cell_period, cell_next, cell_lessons, period_data, split_result,
           formatted, run, first_run,
           route, upload, content, files, temp_path, csv_path, temp_files_to_clean,
           response >>

pipelineVars == << grid, header_row, weekday_start_cols, weekday_column_ranges, row_idx,
                   timetable, class_count, result, statistics >>

cellVars == << cell_text, cell_period, cell_next, cell_lessons, period_data, split_result >>

rerunVars == << run, first_run >>

requestVars == << route, upload, content, files, temp_path, csv_path, temp_files_to_clean,
                  response >>

\* what the actions of parse_to_json and of the cell walk leave alone
outerVars == << formatted, rerunVars, requestVars >>

-----------------------------------------------------------------------------
(* Python values *)

None == << >>

Some(v) == << v >>

EmptyDict == [k \in {} |-> 0]

\* an assignment that keeps the value of a key the dict already has
DictSetKeepFirst(d, key, v) ==
  [k \in DOMAIN d \cup {key} |-> IF k \in DOMAIN d THEN d[k] ELSE v]

DictSet(d, key, v) == [k \in (DOMAIN d) \cup {key} |-> IF k = key THEN v ELSE d[k]]

Min(a, b) == IF a <= b THEN a ELSE b

-----------------------------------------------------------------------------
(* str methods *)

Whitespace == {" ", "\n", "\t", "\r"}

RECURSIVE LStrip(_)
LStrip(s) == IF s = << >> \/ Head(s) \notin Whitespace THEN s ELSE LStrip(Tail(s))

RECURSIVE RStrip(_)
RStrip(s) ==
  IF s = << >> \/ s[Len(s)] \notin Whitespace THEN s ELSE RStrip(SubSeq(s, 1, Len(s) - 1))

\* str.strip()
Strip(s) == RStrip(LStrip(s))

\* sub in s
Contains(sub, s) ==
  \E i \in 1..(Len(s) - Len(sub) + 1) : SubSeq(s, i, i + Len(sub) - 1) = sub

\* s.split(sep) for a one-character separator
RECURSIVE Split(_, _)
Split(s, sep) ==
  IF \A i \in 1..Len(s) : s[i] # sep
  THEN << s >>
  ELSE LET i == CHOOSE j \in 1..Len(s) : s[j] = sep /\ \A k \in 1..(j - 1) : s[k] # sep
       IN  << SubSeq(s, 1, i - 1) >> \o Split(SubSeq(s, i + 1, Len(s)), sep)

\* s.replace(old, ''), for a non-empty old: occurrences are removed left to right,
\* without overlap, in one pass
RECURSIVE Remove(_, _)
Remove(s, old) ==
  IF Len(s) < Len(old) THEN s
  ELSE IF SubSeq(s, 1, Len(old)) = old
       THEN Remove(SubSeq(s, Len(old) + 1, Len(s)), old)
       ELSE << Head(s) >> \o Remove(Tail(s), old)

-----------------------------------------------------------------------------
(* CSVParser constants *)

XQ == << "xing", "qi" >>

WEEKDAYS == << XQ \o << "yi" >>, XQ \o << "er" >>, XQ \o << "san" >>,
               XQ \o << "si" >>, XQ \o << "wu" >> >>

WeekdayNames == {WEEKDAYS[i] : i \in 1..Len(WEEKDAYS)}

\* one period too many
TenPeriods == 9 + 1

PERIODS_PER_DAY == 9

ClassMeeting == << "ban", "hui" >>

SunshineSports == << "yang", "guang", "ti", "yu" >>

MarkerFull == << "FW(", "ban", "FW)" >>

MarkerHalf == << "(", "ban", ")" >>

-----------------------------------------------------------------------------
(* CSVParser._detect_and_split_duplicate_course *)

\* the pattern without its final '$': a repeated prefix is enough
RepeatMatchPrefix(course) ==
  {k \in 1..Len(course) :
     /\ 2 * k <= Len(course)
     /\ \A i \in 1..k : course[i] # "\n"
     /\ SubSeq(course, k + 1, 2 * k) = SubSeq(course, 1, k)}

\* re.match(r'^(.+)\1$', course): the group is a non-empty prefix without a line
\* break ('.' matches no '\n'), followed by a copy of itself, followed by the end of
\* the string or by one final line break ('$'); at most one k qualifies
RepeatMatch(course) ==
  {k \in 1..Len(course) :
     /\ 2 * k <= Len(course)
     /\ \A i \in 1..k : course[i] # "\n"
     /\ SubSeq(course, k + 1, 2 * k) = SubSeq(course, 1, k)
     /\ \/ 2 * k = Len(course)
        \/ 2 * k + 1 = Len(course) /\ course[Len(course)] = "\n"}

DetectAndSplitDuplicateCourse(course) ==
  IF course = << >> \/ Len(course) < 2 THEN None
  ELSE IF RepeatMatch(course) # {}
       THEN LET k == CHOOSE j \in RepeatMatch(course) : TRUE
                base_course == SubSeq(course, 1, k)
            IN  Some(<< base_course, base_course >>)
       ELSE None

-----------------------------------------------------------------------------
(* CSVParser._parse_cell *)

\* lines 377-386: the class-teacher marker is taken off the teacher text; the result
\* is << teacher, is_class_teacher >>
CleanTeacher(teacher) ==
  IF teacher # None /\ teacher[1] # << >>
  THEN IF Contains(MarkerFull, teacher[1])
       THEN << Some(Remove(teacher[1], MarkerFull)), TRUE >>
       ELSE IF Contains(MarkerHalf, teacher[1])
            THEN << Some(Remove(teacher[1], MarkerHalf)), TRUE >>
            ELSE << teacher, FALSE >>
  ELSE << teacher, FALSE >>

Activity(period, label) ==
  [period |-> period, course |-> label, teacher |-> None, is_class_teacher |-> FALSE]

\* the two activity tests in the other order
ParseCellSportsFirst(cell_value, period) ==
  IF Contains(SunshineSports, cell_value) THEN Some(Activity(period, SunshineSports))
  ELSE IF Contains(ClassMeeting, cell_value) THEN Some(Activity(period, ClassMeeting))
  ELSE LET parts == Split(cell_value, "\n")
           course == IF Len(parts) > 0 THEN Strip(parts[1]) ELSE << >>
           teacher == IF Len(parts) > 1 THEN Some(Strip(parts[2])) ELSE None
           cleaned == CleanTeacher(teacher)
       IN  IF course = << >> THEN None
           ELSE Some([period |-> period, course |-> course,
                      teacher |-> cleaned[1], is_class_teacher |-> cleaned[2]])

\* the class-teacher markers taken off the course as well: a cell that holds only
\* a marker has no course
ParseCellCleanCourse(cell_value, period) ==
  IF Contains(ClassMeeting, cell_value) THEN Some(Activity(period, ClassMeeting))
  ELSE IF Contains(SunshineSports, cell_value) THEN Some(Activity(period, SunshineSports))
  ELSE LET parts == Split(cell_value, "\n")
           course == IF Len(parts) > 0
                     THEN Strip(Remove(Remove(parts[1], MarkerFull), MarkerHalf))
                     ELSE << >>
           teacher == IF Len(parts) > 1 THEN Some(Strip(parts[2])) ELSE None
           cleaned == CleanTeacher(teacher)
       IN  IF course = << >> THEN None
           ELSE Some([period |-> period, course |-> course,
                      teacher |-> cleaned[1], is_class_teacher |-> cleaned[2]])

ParseCell(cell_value, period) ==
  IF Contains(ClassMeeting, cell_value) THEN Some(Activity(period, ClassMeeting))
  ELSE IF Contains(SunshineSports, cell_value) THEN Some(Activity(period, SunshineSports))
  ELSE LET parts == Split(cell_value, "\n")
           course == IF Len(parts) > 0 THEN Strip(parts[1]) ELSE << >>
           teacher == IF Len(parts) > 1 THEN Some(Strip(parts[2])) ELSE None
           cleaned == CleanTeacher(teacher)
       IN  IF course = << >> THEN None
           ELSE Some([period |-> period, course |-> course,
                      teacher |-> cleaned[1], is_class_teacher |-> cleaned[2]])

\* lines 248 and 261: the test for an empty cell
IsEmptyCell(cell_value) == cell_value = << >> \/ cell_value = << "n", "a", "n" >>

-----------------------------------------------------------------------------
(* CSVParser._find_weekday_start_columns *)

\* the inner loop of lines 111-116: the first column at or after col_idx whose
\* header cell contains the weekday's name
RECURSIVE ScanHeader(_, _, _)
ScanHeader(header, weekday, col_idx) ==
  IF col_idx >= Len(header) THEN None
  ELSE IF Contains(weekday, header[col_idx + 1]) THEN Some(col_idx)
       ELSE ScanHeader(header, weekday, col_idx + 1)

FindWeekdayStartColumns(header) ==
  [weekday \in {d \in WeekdayNames : ScanHeader(header, d, 0) # None} |->
     ScanHeader(header, weekday, 0)[1]]

-----------------------------------------------------------------------------
(* CSVParser._calculate_weekday_ranges *)

\* the inner loop of lines 143-148: the start column of the first weekday at
\* position j or later (1-based position in WEEKDAYS) that has one, else total_columns
\* only the weekday right after is looked at, not the next one that is present
NextStartAdjacent(start_cols, j, total_columns) ==
  IF j <= Len(WEEKDAYS) /\ WEEKDAYS[j] \in DOMAIN start_cols
  THEN start_cols[WEEKDAYS[j]] ELSE total_columns

RECURSIVE NextStart(_, _, _)
NextStart(start_cols, j, total_columns) ==
  IF j > Len(WEEKDAYS) THEN total_columns
  ELSE IF WEEKDAYS[j] \in DOMAIN start_cols THEN start_cols[WEEKDAYS[j]]
       ELSE NextStart(start_cols, j + 1, total_columns)

CalculateWeekdayRanges(start_cols, total_columns) ==
  [weekday \in DOMAIN start_cols |->
     LET i == CHOOSE k \in 1..Len(WEEKDAYS) : WEEKDAYS[k] = weekday
     IN  << start_cols[weekday], NextStart(start_cols, i + 1, total_columns) >>]

-----------------------------------------------------------------------------
(* CSVParser._is_class_row *)

GradeMarkers == {"chu", "gao"}

GradeNumerals == {"yi", "er", "san", "si", "wu", "liu", "qi_7", "ba", "jiu", "shi"}

Digits == {"0", "1", "2", "3", "4", "5", "6", "7", "8", "9"}

Separators == {".", "mid"}

\* re.match of ^[grade marker][numeral or digit]+[separator]?\d+ban (lines 174-175);
\* with sep = FALSE the pattern without the separator (lines 179-180).
\* i is the last position of the numeral run, j0 the first and j the last of the digits
ClassPattern(s, sep) ==
  /\ Len(s) >= 1
  /\ s[1] \in GradeMarkers
  /\ \E i \in 2..Len(s) :
       /\ \A k \in 2..i : s[k] \in GradeNumerals \cup Digits
       /\ \E j0 \in {i + 1} \cup (IF sep /\ i + 1 <= Len(s) /\ s[i + 1] \in Separators
                                  THEN {i + 2} ELSE {}) :
            \E j \in j0..(Len(s) - 1) :
              /\ \A k \in j0..j : s[k] \in Digits
              /\ s[j + 1] = "ban"

\* the test of the first cell (lines 168-169) left out
IsClassRowAnyLabel(row, first_cell) ==
  IF ClassPattern(first_cell, TRUE) THEN TRUE
  ELSE IF ClassPattern(first_cell, FALSE) THEN TRUE
  ELSE /\ Len(row) > 1
       /\ \E col_idx \in 1..(Min(Len(row), 10) - 1) : ~IsEmptyCell(Strip(row[col_idx + 1]))

\* the fallback looks at every column after the first, not only at columns 1..9
IsClassRowAllColumns(row, first_cell) ==
  IF first_cell = << >> \/ first_cell = << "n", "a", "n" >> THEN FALSE
  ELSE IF ClassPattern(first_cell, TRUE) THEN TRUE
  ELSE IF ClassPattern(first_cell, FALSE) THEN TRUE
  ELSE /\ Len(row) > 1
       /\ \E col_idx \in 1..(Len(row) - 1) : ~IsEmptyCell(Strip(row[col_idx + 1]))

IsClassRow(row, first_cell) ==
  IF first_cell = << >> \/ first_cell = << "n", "a", "n" >> THEN FALSE
  ELSE IF ClassPattern(first_cell, TRUE) THEN TRUE
  ELSE IF ClassPattern(first_cell, FALSE) THEN TRUE
  ELSE /\ Len(row) > 1
       /\ \E col_idx \in 1..(Min(Len(row), 10) - 1) : ~IsEmptyCell(Strip(row[col_idx + 1]))

-----------------------------------------------------------------------------
(* CSVParser._parse_class_schedule *)

\* the look at the next cell without the test of line 258 against max_cols: the
\* cell after the end of the weekday's window counts as the next period
SplitCoursesPastWindow(row, data_start_col, max_cols, period, cell_value) ==
  LET next_period == period + 1
      next_col_idx == data_start_col + next_period - 1
  IN  IF /\ next_period <= PERIODS_PER_DAY
         /\ next_col_idx < Len(row)
         /\ IsEmptyCell(Strip(row[next_col_idx + 1]))
         /\ ParseCell(cell_value, period) # None
      THEN DetectAndSplitDuplicateCourse(ParseCell(cell_value, period)[1].course)
      ELSE None

\* the repeat looked for in the first line of the cell instead of the course
\* _parse_cell gives
SplitCoursesOfText(row, data_start_col, max_cols, period, cell_value) ==
  LET next_period == period + 1
      next_col_idx == data_start_col + next_period - 1
  IN  IF /\ next_period <= PERIODS_PER_DAY
         /\ next_col_idx < max_cols
         /\ next_col_idx < Len(row)
         /\ IsEmptyCell(Strip(row[next_col_idx + 1]))
         /\ ParseCell(cell_value, period) # None
      THEN DetectAndSplitDuplicateCourse(Strip(Split(cell_value, "\n")[1]))
      ELSE None

\* lines 251-271: the value of split_courses after the look at the next period
SplitCourses(row, data_start_col, max_cols, period, cell_value) ==
  LET next_period == period + 1
      next_col_idx == data_start_col + next_period - 1
  IN  IF /\ next_period <= PERIODS_PER_DAY
         /\ next_col_idx < max_cols
         /\ next_col_idx < Len(row)
         /\ IsEmptyCell(Strip(row[next_col_idx + 1]))
         /\ ParseCell(cell_value, period) # None
      THEN DetectAndSplitDuplicateCourse(ParseCell(cell_value, period)[1].course)
      ELSE None

\* the second lesson of a split without the teacher of the cell
CellLessonsTeacherLost(row, data_start_col, max_cols, period, cell_value) ==
  LET split_courses == SplitCourses(row, data_start_col, max_cols, period, cell_value)
      parsed == ParseCell(cell_value, period)
  IN  IF parsed = None THEN << >>
      ELSE IF split_courses # None
           THEN << [period |-> period, course |-> split_courses[1][1],
                    teacher |-> parsed[1].teacher,
                    is_class_teacher |-> parsed[1].is_class_teacher],
                   [period |-> period + 1, course |-> split_courses[1][2],
                    teacher |-> None, is_class_teacher |-> FALSE] >>
           ELSE << parsed[1] >>

\* both lessons of a split filed under the period of the cell
CellLessonsSamePeriod(row, data_start_col, max_cols, period, cell_value) ==
  LET split_courses == SplitCourses(row, data_start_col, max_cols, period, cell_value)
      parsed == ParseCell(cell_value, period)
  IN  IF parsed = None THEN << >>
      ELSE IF split_courses # None
           THEN << [period |-> period, course |-> split_courses[1][1],
                    teacher |-> parsed[1].teacher,
                    is_class_teacher |-> parsed[1].is_class_teacher],
                   [period |-> period, course |-> split_courses[1][2],
                    teacher |-> parsed[1].teacher,
                    is_class_teacher |-> parsed[1].is_class_teacher] >>
           ELSE << parsed[1] >>

\* lines 273-309: the lessons one non-empty cell appends to the weekday's list
CellLessons(row, data_start_col, max_cols, period, cell_value) ==
  LET split_courses == SplitCourses(row, data_start_col, max_cols, period, cell_value)
      parsed == ParseCell(cell_value, period)
  IN  IF parsed = None THEN << >>
      ELSE IF split_courses # None
           THEN << [period |-> period, course |-> split_courses[1][1],
                    teacher |-> parsed[1].teacher,
                    is_class_teacher |-> parsed[1].is_class_teacher],
                   [period |-> period + 1, course |-> split_courses[1][2],
                    teacher |-> parsed[1].teacher,
                    is_class_teacher |-> parsed[1].is_class_teacher] >>
           ELSE << parsed[1] >>

\* the anchor column taken for a title column: the data start one column later
ColIdxAfterAnchor(data_start_col, period) == data_start_col + period

\* line 239
ColIdx(data_start_col, period) == data_start_col + period - 1

\* lines 234-309: the loop over the periods, from `period` on, for one weekday;
\* the result is the weekday's list and processed_periods
RECURSIVE Walk(_, _, _, _, _, _)
Walk(row, data_start_col, max_cols, period, processed, lessons) ==
  LET col_idx == ColIdx(data_start_col, period)
      here == [lessons |-> lessons, processed_periods |-> processed]
  IN  IF period > PERIODS_PER_DAY THEN here
      ELSE IF period \in processed
           THEN Walk(row, data_start_col, max_cols, period + 1, processed, lessons)
      ELSE IF col_idx >= max_cols \/ col_idx >= Len(row) THEN here
      ELSE LET cell_value == Strip(row[col_idx + 1])
               new == CellLessons(row, data_start_col, max_cols, period, cell_value)
           IN  IF IsEmptyCell(cell_value)
               THEN Walk(row, data_start_col, max_cols, period + 1, processed, lessons)
               ELSE Walk(row, data_start_col, max_cols, period + 1,
                         processed \cup {new[k].period : k \in 1..Len(new)},
                         lessons \o new)

\* line 226
MaxCols(row, range) == Min(Min(range[1] + PERIODS_PER_DAY, range[2]), Len(row))

\* schedule kept between the calls: the lists go on from those of the timetable
\* returned before
ParseClassScheduleKeepsLists(row, ranges) ==
  [weekday \in WeekdayNames |->
     (IF result # None /\ Strip(row[1]) \in DOMAIN result[1]
      THEN result[1][Strip(row[1])][weekday] ELSE << >>)
     \o (IF weekday \notin DOMAIN ranges THEN << >>
         ELSE Walk(row, ranges[weekday][1], MaxCols(row, ranges[weekday]),
                   1, {}, << >>).lessons)]

\* the list of a weekday made only once the weekday is known to have a range
ParseClassScheduleRangesOnly(row, ranges) ==
  [weekday \in DOMAIN ranges |->
     Walk(row, ranges[weekday][1], MaxCols(row, ranges[weekday]), 1, {}, << >>).lessons]

ParseClassSchedule(row, ranges) ==
  [weekday \in WeekdayNames |->
     IF weekday \notin DOMAIN ranges THEN << >>
     ELSE Walk(row, ranges[weekday][1], MaxCols(row, ranges[weekday]), 1, {}, << >>).lessons]

-----------------------------------------------------------------------------
(* CSVParser.get_statistics *)

RECURSIVE SumDays(_, _)
SumDays(class_data, days) ==
  IF days = {} THEN 0
  ELSE LET d == CHOOSE x \in days : TRUE
       IN  Len(class_data[d]) + SumDays(class_data, days \ {d})

RECURSIVE SumClasses(_, _)
SumClasses(tt, names) ==
  IF names = {} THEN 0
  ELSE LET c == CHOOSE x \in names : TRUE
       IN  SumDays(tt[c], DOMAIN tt[c]) + SumClasses(tt, names \ {c})

\* the weekday lists counted instead of their lessons
GetStatisticsCountsLists(tt) ==
  [total_classes |-> Cardinality(DOMAIN tt),
   total_periods |-> Cardinality({<< c, d >> \in (DOMAIN tt) \X WeekdayNames : tt[c][d] # << >>})]

GetStatistics(tt) ==
  [total_classes |-> Cardinality(DOMAIN tt),
   total_periods |-> SumClasses(tt, DOMAIN tt)]

-----------------------------------------------------------------------------
(* formatters.format_timetable *)

\* ord() of the characters the tokens stand for
CodePoint(tok) ==
  CASE tok = "\t" -> 9 [] tok = "\n" -> 10 [] tok = "\r" -> 13 [] tok = " " -> 32
    [] tok = "(" -> 40 [] tok = ")" -> 41 [] tok = "." -> 46
    [] tok = "0" -> 48 [] tok = "1" -> 49 [] tok = "2" -> 50 [] tok = "3" -> 51
    [] tok = "4" -> 52 [] tok = "5" -> 53 [] tok = "6" -> 54 [] tok = "7" -> 55
    [] tok = "8" -> 56 [] tok = "9" -> 57
    [] tok = "a" -> 97 [] tok = "b" -> 98 [] tok = "n" -> 110 [] tok = "t" -> 116
    [] tok = "mid" -> 183
    [] tok = "qi_7" -> 19971 [] tok = "san" -> 19977 [] tok = "jiu" -> 20061
    [] tok = "er" -> 20108 [] tok = "wu" -> 20116 [] tok = "hui" -> 20250
    [] tok = "ti" -> 20307 [] tok = "guang" -> 20809 [] tok = "ba" -> 20843
    [] tok = "liu" -> 20845 [] tok = "chu" -> 21021 [] tok = "shi" -> 21313
    [] tok = "si" -> 22235 [] tok = "xing" -> 26143 [] tok = "qi" -> 26399
    [] tok = "ban" -> 29677 [] tok = "ji" -> 32423 [] tok = "yu" -> 32946
    [] tok = "yang" -> 38451 [] tok = "gao" -> 39640
    [] tok = "yi" -> 19968 [] tok = "FW(" -> 65288 [] tok = "FW)" -> 65289

\* a < b for two str: the order sorted() puts the class names in
RECURSIVE StrLess(_, _)
StrLess(a, b) ==
  IF b = << >> THEN FALSE
  ELSE IF a = << >> THEN TRUE
  ELSE IF CodePoint(Head(a)) # CodePoint(Head(b)) THEN CodePoint(Head(a)) < CodePoint(Head(b))
  ELSE StrLess(Tail(a), Tail(b))

\* sorted(..., reverse=True)
RECURSIVE SortedDescending(_)
SortedDescending(names) ==
  IF names = {} THEN << >>
  ELSE LET last == CHOOSE x \in names : \A y \in names \ {x} : StrLess(x, y)
       IN  SortedDescending(names \ {last}) \o << last >>

\* line 15: the class names in the order of sorted(timetable.items()); the names are
\* the keys of a dict, so no two are equal and the schedules are never compared
RECURSIVE Sorted(_)
Sorted(names) ==
  IF names = {} THEN << >>
  ELSE LET first == CHOOSE x \in names : \A y \in names \ {x} : StrLess(x, y)
       IN  << first >> \o Sorted(names \ {first})

\* CSVParser.WEEKDAY_EN_MAP
WEEKDAY_EN_MAP ==
  [d \in WeekdayNames |->
     CASE d = WEEKDAYS[1] -> "monday" [] d = WEEKDAYS[2] -> "tuesday"
       [] d = WEEKDAYS[3] -> "wednesday" [] d = WEEKDAYS[4] -> "thursday"
       [] d = WEEKDAYS[5] -> "friday"]

\* lines 21-24: the schedule of one class under the English names of its weekdays
FormatSchedule(schedule) ==
  [en \in {WEEKDAY_EN_MAP[d] : d \in WeekdayNames \cap DOMAIN schedule} |->
     schedule[CHOOSE d \in WeekdayNames \cap DOMAIN schedule : WEEKDAY_EN_MAP[d] = en]]

FormatTimetable(tt) ==
  [classes |->
     [i \in 1..Cardinality(DOMAIN tt) |->
        [class_name |-> Sorted(DOMAIN tt)[i],
         schedule |-> FormatSchedule(tt[Sorted(DOMAIN tt)[i]])]]]

-----------------------------------------------------------------------------
(* The grids the conversion is run on *)

HdrCols == 3        \* columns of the grids whose header row is arbitrary

WideCols == 12      \* columns of the grids whose data row is arbitrary

NarrowCols == 4     \* columns of the grids with several data rows

PatLen == 2         \* a data row repeats a pattern of at most PatLen cells

MaxDataRows == 2    \* data rows (index >= 2) of the grids with several data rows

T == << "t" >>

NL == << "\n" >>

NaN == << "n", "a", "n" >>

\* the body cells: empty, blank, NaN, a course with its teacher, a doubled course
\* with a class teacher, a doubled course with blanks inside, a doubled activity label
BodyCells ==
  { << >>, << " " >>, NaN,
    << "a" >> \o NL \o T,
    << "a", "a" >> \o NL \o T \o MarkerHalf,
    << " ", "a", " ", "a" >> \o NL \o T,
    ClassMeeting \o ClassMeeting \o NL \o T }

\* the patterns of the rows of the grids with several data rows: no course, a
\* course in every cell, a course or a doubled course in every other cell
BasicPatterns ==
  { << << >> >>,
    << << "a" >> \o NL \o T >>,
    << << "a" >> \o NL \o T, << >> >>,
    << << "a", "a" >> \o NL \o T \o MarkerHalf, << >> >> }

ClassLabel == << "chu", "yi", ".", "1", "ban" >>

\* the first cells: empty, blank, NaN, a class name, a label that is no class name
Labels == { << >>, << " " >>, NaN, ClassLabel, << "a" >> }

\* the patterns of at most n cells; the cells after the second are empty
Patterns(cells, n) ==
  UNION {{p \in [1..m -> cells] : \A i \in 3..m : p[i] = << >>} : m \in 1..n}

\* the row of w cells that starts with label and repeats pat after it
RowOf(label, pat, w) ==
  [c \in 1..w |-> IF c = 1 THEN label ELSE pat[((c - 2) % Len(pat)) + 1]]

RichRows(w) == {RowOf(l, p, w) : l \in Labels, p \in Patterns(BodyCells, PatLen)}

BasicRows(w) == {RowOf(l, p, w) : l \in {<< " " >>, ClassLabel, << "a" >>}, p \in BasicPatterns}

\* row 1, the sub-header: the period numbers
SubHeader(w) == RowOf(<< "a" >>, << << "1" >> >>, w)

HeaderLabel == << "ban", "ji" >>

\* the names of the weekdays i.. whose anchor is column c (or, with echo, the
\* column before c: a merged header cell repeated by the extraction)
RECURSIVE NamesAt(_, _, _, _)
NamesAt(anchor, echo, c, i) ==
  IF i > Len(WEEKDAYS) THEN << >>
  ELSE (IF /\ WEEKDAYS[i] \in DOMAIN anchor
           /\ (anchor[WEEKDAYS[i]] = c \/ (echo /\ anchor[WEEKDAYS[i]] + 1 = c))
        THEN WEEKDAYS[i] ELSE << >>) \o NamesAt(anchor, echo, c, i + 1)

\* the header row of w cells naming each weekday of DOMAIN anchor in its column
HeaderOf(anchor, echo, w) ==
  [c \in 1..w |-> (IF c = 1 THEN HeaderLabel ELSE << >>) \o NamesAt(anchor, echo, c - 1, 1)]

Anchors(w) == UNION {[D -> 0..(w - 1)] : D \in SUBSET WeekdayNames}

\* Monday in column 1 and each next weekday k columns further, while they fit
StrideAnchor(k, w) ==
  [d \in {WEEKDAYS[i] : i \in {j \in 1..Len(WEEKDAYS) : 1 + (j - 1) * k < w}} |->
     1 + ((CHOOSE i \in 1..Len(WEEKDAYS) : WEEKDAYS[i] = d) - 1) * k]

Layouts(w) ==
  {HeaderOf(StrideAnchor(k, w), FALSE, w) : k \in {1, 2, PERIODS_PER_DAY, w}}
  \cup {HeaderOf(a, FALSE, w) :
          a \in {EmptyDict,
                 [d \in {WEEKDAYS[5]} |-> 1],
                 [d \in {WEEKDAYS[1], WEEKDAYS[2]} |-> IF d = WEEKDAYS[1] THEN 2 ELSE 1]}}

\* the sequences of at most n rows; the rows after the second repeat the second
RowSeqs(rows, n) ==
  UNION {{s \in [1..m -> rows] : \A i \in 3..m : s[i] = s[2]} : m \in 0..n}

DenseRow(w) == RowOf(ClassLabel, << << "a" >> \o NL \o T >>, w)

\* too few rows
ShortGrids ==
  {<< >>} \cup {<< h >> : h \in Layouts(NarrowCols)}
  \cup {<< h, r >> : h \in Layouts(NarrowCols), r \in BasicRows(NarrowCols)}

\* every header row, one class row
HeaderGrids ==
  {<< HeaderOf(a, e, HdrCols), SubHeader(HdrCols), DenseRow(HdrCols) >> :
     a \in Anchors(HdrCols), e \in BOOLEAN}

\* the rows of w cells whose only courses are in the columns from 10 on
TailRows(w) ==
  {[c \in 1..w |-> IF c = 1 THEN l ELSE IF c > 10 THEN << "a" >> \o NL \o T ELSE << >>] :
     l \in {ClassLabel, << "a" >>}}

\* a few header rows, every data row
RowGrids ==
  {<< h, SubHeader(WideCols), r >> :
     h \in Layouts(WideCols), r \in RichRows(WideCols) \cup TailRows(WideCols)}

\* a few header rows, several data rows
MultiGrids ==
  {<< h, SubHeader(NarrowCols) >> \o rs :
     h \in Layouts(NarrowCols), rs \in RowSeqs(BasicRows(NarrowCols), MaxDataRows)}

Grids == ShortGrids \cup HeaderGrids \cup RowGrids \cup MultiGrids

-----------------------------------------------------------------------------
(* CSVParser.parse_to_json, followed by CSVParser.get_statistics as
   formatters.csv_to_json_internal calls them *)

\* no conversion has returned and no request is being served
OuterIdle ==
  /\ formatted = None
  /\ run = 1
  /\ first_run = None
  /\ route = "none"
  /\ upload = None
  /\ content = [kind |-> "none"]
  /\ files = {}
  /\ temp_path = None
  /\ csv_path = None
  /\ temp_files_to_clean = None
  /\ response = None

Init ==
  /\ pc = "start"
  /\ grid \in Grids
  /\ header_row = << >>
  /\ weekday_start_cols = EmptyDict
  /\ weekday_column_ranges = EmptyDict
  /\ row_idx = 0
  /\ timetable = EmptyDict
  /\ class_count = 0
  /\ result = None
  /\ statistics = None
  /\ cell_text = << >>
  /\ cell_period = 1
  /\ cell_next = << >>
  /\ cell_lessons = << >>
  /\ period_data = None
  /\ split_result = None
  /\ OuterIdle

\* the row test of line 46 off by one: a header and a sub-header are enough
TooFewRowsOffByOne(df) == Len(df) < 2

\* line 46
TooFewRows(df) == Len(df) < 3

\* the test of line 56 against None instead of the empty dict: never true
NoWeekdayFoundIsNone(start_cols) == FALSE

\* the test of line 56 asking for all five weekdays instead of at least one
NoWeekdayFoundAnyMissing(start_cols) == DOMAIN start_cols # WeekdayNames

\* line 56
NoWeekdayFound(start_cols) == DOMAIN start_cols = {}

\* lines 43-48: fewer than 3 rows
ReadCsvShort ==
  /\ pc = "start"
  /\ TooFewRows(grid)
  /\ pc' = "failed"
  /\ result' = None
  /\ UNCHANGED << grid, header_row, weekday_start_cols, weekday_column_ranges, row_idx,
                  timetable, class_count, statistics >>
  /\ UNCHANGED cellVars
  /\ UNCHANGED outerVars

ReadCsv ==
  /\ pc = "start"
  /\ ~TooFewRows(grid)
  /\ pc' = "step1"
  /\ UNCHANGED pipelineVars
  /\ UNCHANGED cellVars
  /\ UNCHANGED outerVars

\* lines 52-58
FindWeekdays ==
  /\ pc = "step1"
  /\ header_row' = grid[1]
  /\ weekday_start_cols' = FindWeekdayStartColumns(grid[1])
  /\ IF NoWeekdayFound(weekday_start_cols')
     THEN pc' = "failed" /\ result' = None
     ELSE pc' = "step2" /\ UNCHANGED result
  /\ UNCHANGED << grid, weekday_column_ranges, row_idx, timetable, class_count, statistics >>
  /\ UNCHANGED cellVars
  /\ UNCHANGED outerVars

\* lines 62-70
CalcRanges ==
  /\ pc = "step2"
  /\ weekday_column_ranges' = CalculateWeekdayRanges(weekday_start_cols, Len(header_row))
  /\ timetable' = EmptyDict
  /\ class_count' = 0
  /\ row_idx' = 2
  /\ pc' = "step3"
  /\ UNCHANGED << grid, header_row, weekday_start_cols, result, statistics >>
  /\ UNCHANGED cellVars
  /\ UNCHANGED outerVars

\* line 74
ClassName(row) == IF Len(row) > 0 THEN Strip(row[1]) ELSE << >>

\* lines 72-89: one iteration of the loop over the data rows
ParseRow ==
  /\ pc = "step3"
  /\ row_idx < Len(grid)
  /\ LET row == grid[row_idx + 1]
         class_name == ClassName(row)
     IN  IF ~IsClassRow(row, class_name)
         THEN UNCHANGED << timetable, class_count >>
         ELSE /\ timetable' = DictSet(timetable, class_name,
                                      ParseClassSchedule(row, weekday_column_ranges))
              /\ class_count' = class_count + 1
  /\ row_idx' = row_idx + 1
  /\ UNCHANGED << pc, grid, header_row, weekday_start_cols, weekday_column_ranges,
                  result, statistics >>
  /\ UNCHANGED cellVars
  /\ UNCHANGED outerVars

\* lines 91-92
Return ==
  /\ pc = "step3"
  /\ row_idx >= Len(grid)
  /\ result' = Some(timetable)
  /\ pc' = "done"
  /\ UNCHANGED << grid, header_row, weekday_start_cols, weekday_column_ranges, row_idx,
                  timetable, class_count, statistics >>
  /\ UNCHANGED cellVars
  /\ UNCHANGED outerVars

\* formatters.py line 62
Format ==
  /\ pc = "done"
  /\ formatted' = Some(FormatTimetable(result[1]))
  /\ pc' = "formatted"
  /\ UNCHANGED pipelineVars
  /\ UNCHANGED cellVars
  /\ UNCHANGED << rerunVars, requestVars >>

\* formatters.py line 67
Statistics ==
  /\ pc = "formatted"
  /\ statistics' = Some(GetStatistics(result[1]))
  /\ pc' = "stats"
  /\ UNCHANGED << grid, header_row, weekday_start_cols, weekday_column_ranges, row_idx,
                  timetable, class_count, result >>
  /\ UNCHANGED cellVars
  /\ UNCHANGED outerVars

Next ==
  \/ ReadCsvShort
  \/ ReadCsv
  \/ FindWeekdays
  \/ CalcRanges
  \/ ParseRow
  \/ Return
  \/ Format
  \/ Statistics

Spec == Init /\ [][Next]_vars

-----------------------------------------------------------------------------
(* The conversion run a second time on the same grid: csv_to_json_internal is
   called once per request, and the second call starts from whatever the first
   one left *)

\* a header row, the sub-header and two data rows; or too few rows
TwiceGrids ==
  ShortGrids
  \cup {<< h, SubHeader(NarrowCols), r1, r2 >> :
          h \in Layouts(NarrowCols), r1 \in BasicRows(NarrowCols),
          r2 \in BasicRows(NarrowCols)}

InitTwice ==
  /\ pc = "start"
  /\ grid \in TwiceGrids
  /\ header_row = << >>
  /\ weekday_start_cols = EmptyDict
  /\ weekday_column_ranges = EmptyDict
  /\ row_idx = 0
  /\ timetable = EmptyDict
  /\ class_count = 0
  /\ result = None
  /\ statistics = None
  /\ cell_text = << >>
  /\ cell_period = 1
  /\ cell_next = << >>
  /\ cell_lessons = << >>
  /\ period_data = None
  /\ split_result = None
  /\ OuterIdle

\* what csv_to_json_internal hands to its caller
Outcome == [result |-> result, formatted |-> formatted, statistics |-> statistics]

\* formatters.py line 48, called again: the caller keeps the outcome of the first
\* call; nothing is reset but by the code of the second call
Rerun ==
  /\ pc \in {"failed", "stats"}
  /\ run = 1
  /\ first_run' = Some(Outcome)
  /\ run' = 2
  /\ pc' = "start"
  /\ UNCHANGED pipelineVars
  /\ UNCHANGED cellVars
  /\ UNCHANGED << formatted, requestVars >>

NextTwice ==
  \/ ReadCsvShort
  \/ ReadCsv
  \/ FindWeekdays
  \/ CalcRanges
  \/ ParseRow
  \/ Return
  \/ Format
  \/ Statistics
  \/ Rerun

SpecTwice == InitTwice /\ [][NextTwice]_vars

-----------------------------------------------------------------------------
(* CSVParser.parse_to_json as one function of the DataFrame, for its callers *)

\* lines 72-89: the loop over the data rows, from row_idx on (0-based)
RECURSIVE ParseRows(_, _, _, _)
ParseRows(df, ranges, idx, tt) ==
  IF idx >= Len(df) THEN tt
  ELSE LET row == df[idx + 1]
           class_name == ClassName(row)
       IN  IF IsClassRow(row, class_name)
           THEN ParseRows(df, ranges, idx + 1,
                          DictSet(tt, class_name, ParseClassSchedule(row, ranges)))
           ELSE ParseRows(df, ranges, idx + 1, tt)

\* readable is FALSE when pd.read_csv raises: the except clause of lines 94-96
\* returns None
ParseToJson(readable, df) ==
  IF ~readable THEN None
  ELSE IF TooFewRows(df) THEN None
  ELSE IF NoWeekdayFound(FindWeekdayStartColumns(df[1])) THEN None
  ELSE Some(ParseRows(df, CalculateWeekdayRanges(FindWeekdayStartColumns(df[1]), Len(df[1])),
                      2, EmptyDict))

-----------------------------------------------------------------------------
(* The file routes of handlers.py: /api/timetable/parse, /api/pdf/to-csv and
   /api/csv/to-json, with file_utils.validate_file_upload and save_temp_file,
   PDFParser.extract_table, formatters.csv_to_json_internal and the after_request
   hook of middleware.py; and the view of /api/timetable/parse that
   api.create_app registers (route "api_parse"), on an app without that hook.

   A filename and a path are str: sequences of characters.  "U" stands for the
   upload folder followed by the 32 hexadecimal digits of the uuid.  A response is
   [status, success, message]; the messages are named by short words.  A value a
   view returns is << response >> (a Response object, whose status jsonify has set
   to 200) or << response, status >> (a tuple, whose status Flask puts on the
   response). *)

Routes == {"parse", "to_csv", "to_json"}

ALLOWED_EXTENSIONS_PDF == {<< "p", "d", "f" >>}

ALLOWED_EXTENSIONS_CSV == {<< "c", "s", "v" >>}

AllowedExtensions(r) == IF r = "to_json" THEN ALLOWED_EXTENSIONS_CSV ELSE ALLOWED_EXTENSIONS_PDF

DefaultExt(r) == IF r = "to_json" THEN << ".", "c", "s", "v" >> ELSE << ".", "p", "d", "f" >>

\* str.lower()
Lower(str) ==
  [i \in 1..Len(str) |->
     CASE str[i] = "P" -> "p" [] str[i] = "D" -> "d" [] str[i] = "F" -> "f"
       [] str[i] = "C" -> "c" [] str[i] = "S" -> "s" [] str[i] = "V" -> "v"
       [] OTHER -> str[i]]

\* the position of the last '.' of str, 0 when there is none
LastDot(str) ==
  IF \E i \in 1..Len(str) : str[i] = "."
  THEN CHOOSE i \in 1..Len(str) : str[i] = "." /\ \A k \in (i + 1)..Len(str) : str[k] # "."
  ELSE 0

\* file_utils.allowed_file
AllowedFile(filename, allowed_extensions) ==
  /\ LastDot(filename) > 0
  /\ Lower(SubSeq(filename, LastDot(filename) + 1, Len(filename))) \in allowed_extensions

\* os.path.splitext(filename)[1], for a filename without directory: the text from
\* the last '.' on, unless only '.' come before it
SplitExt(filename) ==
  IF LastDot(filename) > 0 /\ \E k \in 1..(LastDot(filename) - 1) : filename[k] # "."
  THEN SubSeq(filename, LastDot(filename), Len(filename))
  ELSE << >>

\* str.replace(old, new), for a non-empty old
RECURSIVE Replace(_, _, _)
Replace(str, old, new) ==
  IF Len(str) < Len(old) THEN str
  ELSE IF SubSeq(str, 1, Len(old)) = old
       THEN new \o Replace(SubSeq(str, Len(old) + 1, Len(str)), old, new)
       ELSE << Head(str) >> \o Replace(Tail(str), old, new)

\* jsonify({'success': ..., 'message': ...}): a Response with status 200
Jsonify(success, message) == [status |-> 200, success |-> success, message |-> message]

\* the response Flask makes of the value a view returns
MakeResponse(rv) ==
  IF Len(rv) = 2 THEN [rv[1] EXCEPT !.status = rv[2]] ELSE rv[1]

\* file_utils.validate_file_upload: << file, error_response, status_code >>
ValidateFileUpload(file_field, allowed_extensions) ==
  IF file_field = None
  THEN << None, Some(Jsonify(FALSE, "no_file_field")), Some(400) >>
  ELSE IF file_field[1] = << >>
  THEN << None, Some(Jsonify(FALSE, "empty_filename")), Some(400) >>
  ELSE IF ~AllowedFile(file_field[1], allowed_extensions)
  THEN << None, Some(Jsonify(FALSE, "unsupported_format")), Some(400) >>
  ELSE << file_field, None, None >>

\* file_utils.save_temp_file: the path of the temporary file
TempFilePath(filename, default_ext) ==
  << "U" >> \o (IF SplitExt(filename) # << >> THEN SplitExt(filename) ELSE default_ext)

\* pdf_parser.py line 52
CsvPathOf(pdf_path) ==
  Replace(pdf_path, << ".", "p", "d", "f" >>, << "_", "t", "a", "b", "l", "e", ".", "c", "s", "v" >>)

\* PDFParser.extract_table: [csv_path, files], the returned path and the paths that
\* exist afterwards.  doc.tables says how camelot.read_pdf ends ("raises", "none"
\* found, a "table"), doc.to_csv how table.to_csv ends: "ok", "raises" before it
\* has created the file, or "raises_after" it has
ExtractTable(pdf_path, doc, existing) ==
  IF pdf_path \notin existing THEN [csv_path |-> None, files |-> existing]
  ELSE IF doc.tables # "table" THEN [csv_path |-> None, files |-> existing]
  ELSE IF doc.to_csv = "raises" THEN [csv_path |-> None, files |-> existing]
  ELSE IF doc.to_csv = "raises_after"
       THEN [csv_path |-> None, files |-> existing \cup {CsvPathOf(pdf_path)}]
  ELSE [csv_path |-> Some(CsvPathOf(pdf_path)), files |-> existing \cup {CsvPathOf(pdf_path)}]

\* formatters.csv_to_json_internal: the tuple it returns, of 4 values when the
\* conversion failed (line 54) and of 3 when it succeeded (line 70)
CsvToJsonInternal(doc) ==
  LET tt == ParseToJson(doc.readable, doc.grid)
  IN  IF tt = None
      THEN << None, None, Some(Jsonify(FALSE, "csv_parse_failed")), 400 >>
      ELSE << Some(FormatTimetable(tt[1])), Some(GetStatistics(tt[1])), None >>

\* the value the handlers return after `formatted_data, statistics, error_response =
\* csv_to_json_internal(...)`: a tuple of another length than 3 raises ValueError,
\* which the except clause answers with 500
AfterConversion(ret) ==
  IF Len(ret) # 3 THEN << Jsonify(FALSE, "failed_too_many_values_to_unpack"), 500 >>
  ELSE IF ret[3] # None THEN << ret[3][1] >>
  ELSE << Jsonify(TRUE, "ok"), 200 >>

\* api.py line 57
ALLOWED_EXTENSIONS == {<< "p", "d", "f" >>}

\* allowed_file of api.create_app, lines 59-61
ApiAllowedFile(filename) ==
  /\ LastDot(filename) > 0
  /\ Lower(SubSeq(filename, LastDot(filename) + 1, Len(filename))) \in ALLOWED_EXTENSIONS

\* api.py lines 202-226: the value the view returns for an upload it refuses, None
\* for an upload it accepts
ApiValidate(file_field) ==
  IF file_field = None THEN Some(<< Jsonify(FALSE, "no_file_field"), 400 >>)
  ELSE IF file_field[1] = << >> THEN Some(<< Jsonify(FALSE, "empty_filename"), 400 >>)
  ELSE IF ~ApiAllowedFile(file_field[1])
  THEN Some(<< Jsonify(FALSE, "unsupported_format"), 400 >>)
  ELSE None

\* api.py lines 229-232: the path of the temporary file
ApiTempFilePath(filename) ==
  << "U" >> \o (IF SplitExt(filename) # << >> THEN SplitExt(filename)
               ELSE << ".", "p", "d", "f" >>)

\* api.py lines 246-296: the value the view returns once extract_table has returned
ApiConversion(path, doc) ==
  IF path = None THEN << Jsonify(FALSE, "pdf_parse_failed"), 400 >>
  ELSE IF ParseToJson(doc.readable, doc.grid) = None
  THEN << Jsonify(FALSE, "csv_parse_failed"), 400 >>
  ELSE << Jsonify(TRUE, "ok"), 200 >>

\* os.remove of the paths that exist
RemoveAll(paths, existing) == existing \ {paths[i] : i \in 1..Len(paths)}

\* the filenames of the 'file' field
Filenames ==
  { << >>, << "a" >>, << "a", ".", "t", "x", "t" >>,
    << "a", ".", "p", "d", "f" >>, << "a", ".", "P", "D", "F" >>,
    << ".", "p", "d", "f" >>, << "a", ".", "c", "s", "v" >>,
    << "a", ".", "p", "d", "f", ".", "c", "s", "v" >> }

Uploads == {None} \cup {Some(f) : f \in Filenames}

\* the tables of the uploaded documents: no row, one row, a header without weekday
\* or with weekdays over a class row
RequestGrids ==
  {<< >>, << SubHeader(NarrowCols) >>}
  \cup {<< h, SubHeader(NarrowCols), DenseRow(NarrowCols) >> : h \in Layouts(NarrowCols)}

\* a CSV upload, and the PDF uploads with the ways their extraction ends
Documents(r) ==
  IF r = "to_json"
  THEN {[kind |-> "csv", tables |-> "table", to_csv |-> "ok", readable |-> b, grid |-> g] :
          b \in BOOLEAN, g \in RequestGrids}
  ELSE {[kind |-> "pdf", tables |-> t, to_csv |-> w, readable |-> TRUE, grid |-> g] :
          t \in {"raises", "none", "table"}, w \in {"ok", "raises", "raises_after"},
          g \in RequestGrids}

InitRequest ==
  /\ pc = "request"
  /\ route \in Routes \cup {"api_parse"}
  /\ upload \in Uploads
  /\ content \in Documents(route)
  /\ files = {}
  /\ temp_path = None
  /\ csv_path = None
  /\ temp_files_to_clean = None
  /\ response = None
  /\ formatted = None
  /\ run = 1
  /\ first_run = None
  /\ grid = << >>
  /\ header_row = << >>
  /\ weekday_start_cols = EmptyDict
  /\ weekday_column_ranges = EmptyDict
  /\ row_idx = 0
  /\ timetable = EmptyDict
  /\ class_count = 0
  /\ result = None
  /\ statistics = None
  /\ cell_text = << >>
  /\ cell_period = 1
  /\ cell_next = << >>
  /\ cell_lessons = << >>
  /\ period_data = None
  /\ split_result = None

notRequestVars == << pipelineVars, cellVars, formatted, rerunVars >>

\* handlers.py lines 159-161, 321-323, 525-527: the upload is refused and the
\* handler returns error_response, the Response of jsonify, without status_code
Reject ==
  /\ pc = "request"
  /\ route \in Routes
  /\ ValidateFileUpload(upload, AllowedExtensions(route))[2] # None
  /\ response' = Some(MakeResponse(<< ValidateFileUpload(upload, AllowedExtensions(route))[2][1] >>))
  /\ pc' = "returned"
  /\ UNCHANGED << route, upload, content, files, temp_path, csv_path, temp_files_to_clean >>
  /\ UNCHANGED notRequestVars

\* handlers.py lines 159-164, 321-326, 525-530: the upload is accepted and saved
SaveTempFile ==
  /\ pc = "request"
  /\ route \in Routes
  /\ ValidateFileUpload(upload, AllowedExtensions(route))[2] = None
  /\ temp_path' = Some(TempFilePath(upload[1], DefaultExt(route)))
  /\ files' = files \cup {TempFilePath(upload[1], DefaultExt(route))}
  /\ pc' = "saved"
  /\ UNCHANGED << route, upload, content, csv_path, temp_files_to_clean, response >>
  /\ UNCHANGED notRequestVars

\* handlers.py lines 174 and 336
Extract ==
  /\ pc = "saved"
  /\ route \in {"parse", "to_csv"}
  /\ csv_path' = ExtractTable(temp_path[1], content, files).csv_path
  /\ files' = ExtractTable(temp_path[1], content, files).files
  /\ pc' = "extracted"
  /\ UNCHANGED << route, upload, content, temp_path, temp_files_to_clean, response >>
  /\ UNCHANGED notRequestVars

\* parse_timetable, lines 178-213: the rest of the try block and the except clause
ParseTimetable ==
  /\ pc = "extracted"
  /\ route = "parse"
  /\ response' = Some(MakeResponse(
       IF csv_path = None THEN << Jsonify(FALSE, "pdf_parse_failed"), 400 >>
       ELSE AfterConversion(CsvToJsonInternal(content))))
  /\ pc' = "finally"
  /\ UNCHANGED << route, upload, content, files, temp_path, csv_path, temp_files_to_clean >>
  /\ UNCHANGED notRequestVars

\* parse_timetable, lines 215-228: the finally block
Finally ==
  /\ pc = "finally"
  /\ route = "parse"
  /\ files' = RemoveAll(<< temp_path[1] >> \o csv_path, files)
  /\ pc' = "returned"
  /\ UNCHANGED << route, upload, content, temp_path, csv_path, temp_files_to_clean, response >>
  /\ UNCHANGED notRequestVars

\* pdf_to_csv, lines 340-384
PdfToCsv ==
  /\ pc = "extracted"
  /\ route = "to_csv"
  /\ IF csv_path = None
     THEN /\ temp_files_to_clean' = Some(<< temp_path[1] >>)
          /\ response' = Some(MakeResponse(<< Jsonify(FALSE, "pdf_parse_failed"), 400 >>))
     ELSE IF csv_path[1] \notin files
     THEN /\ temp_files_to_clean' = Some(<< temp_path[1] >>)
          /\ response' = Some(MakeResponse(<< Jsonify(FALSE, "csv_not_generated"), 500 >>))
     ELSE /\ temp_files_to_clean' = Some(<< temp_path[1], csv_path[1] >>)
          /\ response' = Some(MakeResponse(<< Jsonify(TRUE, "csv_file") >>))
  /\ pc' = "returned"
  /\ UNCHANGED << route, upload, content, files, temp_path, csv_path >>
  /\ UNCHANGED notRequestVars

\* csv_to_json, lines 532-563
CsvToJson ==
  /\ pc = "saved"
  /\ route = "to_json"
  /\ temp_files_to_clean' = Some(<< temp_path[1] >>)
  /\ response' = Some(MakeResponse(AfterConversion(CsvToJsonInternal(content))))
  /\ pc' = "returned"
  /\ UNCHANGED << route, upload, content, files, temp_path, csv_path >>
  /\ UNCHANGED notRequestVars

\* middleware.cleanup_temp_files, after the view has returned
CleanupTempFiles ==
  /\ pc = "returned"
  /\ files' = IF temp_files_to_clean = None THEN files
              ELSE RemoveAll(temp_files_to_clean[1], files)
  /\ pc' = "completed"
  /\ UNCHANGED << route, upload, content, temp_path, csv_path, temp_files_to_clean, response >>
  /\ UNCHANGED notRequestVars

\* api.py lines 202-226: the view refuses the upload; the app of create_app has no
\* after_request hook, so the request is over
ApiReject ==
  /\ pc = "request"
  /\ route = "api_parse"
  /\ ApiValidate(upload) # None
  /\ response' = Some(MakeResponse(ApiValidate(upload)[1]))
  /\ pc' = "completed"
  /\ UNCHANGED << route, upload, content, files, temp_path, csv_path, temp_files_to_clean >>
  /\ UNCHANGED notRequestVars

\* api.py lines 229-236: the upload is accepted and saved
ApiSaveTempFile ==
  /\ pc = "request"
  /\ route = "api_parse"
  /\ ApiValidate(upload) = None
  /\ temp_path' = Some(ApiTempFilePath(upload[1]))
  /\ files' = files \cup {ApiTempFilePath(upload[1])}
  /\ pc' = "saved"
  /\ UNCHANGED << route, upload, content, csv_path, temp_files_to_clean, response >>
  /\ UNCHANGED notRequestVars

\* api.py line 244
ApiExtract ==
  /\ pc = "saved"
  /\ route = "api_parse"
  /\ csv_path' = ExtractTable(temp_path[1], content, files).csv_path
  /\ files' = ExtractTable(temp_path[1], content, files).files
  /\ pc' = "extracted"
  /\ UNCHANGED << route, upload, content, temp_path, temp_files_to_clean, response >>
  /\ UNCHANGED notRequestVars

\* api.py lines 246-296: the rest of the try block
ApiParseTimetable ==
  /\ pc = "extracted"
  /\ route = "api_parse"
  /\ response' = Some(MakeResponse(ApiConversion(csv_path, content)))
  /\ pc' = "finally"
  /\ UNCHANGED << route, upload, content, files, temp_path, csv_path, temp_files_to_clean >>
  /\ UNCHANGED notRequestVars

\* api.py lines 305-318: the finally block, after which the request is over
ApiFinally ==
  /\ pc = "finally"
  /\ route = "api_parse"
  /\ files' = RemoveAll(<< temp_path[1] >> \o csv_path, files)
  /\ pc' = "completed"
  /\ UNCHANGED << route, upload, content, temp_path, csv_path, temp_files_to_clean, response >>
  /\ UNCHANGED notRequestVars

NextRequest ==
  \/ Reject
  \/ SaveTempFile
  \/ Extract
  \/ ParseTimetable
  \/ Finally
  \/ PdfToCsv
  \/ CsvToJson
  \/ CleanupTempFiles
  \/ ApiReject
  \/ ApiSaveTempFile
  \/ ApiExtract
  \/ ApiParseTimetable
  \/ ApiFinally

SpecRequest == InitRequest /\ [][NextRequest]_vars

-----------------------------------------------------------------------------
(* One cell of the column walk: lines 245-249 (trim, skip the empty cell), the call
   of _parse_cell and, on its course, of _detect_and_split_duplicate_course *)

MaxPieces == 4      \* a cell text is made of at most MaxPieces pieces

Pieces ==
  { << "a" >>, << "b" >>, << " " >>, NL, MarkerFull, MarkerHalf,
    ClassMeeting, SunshineSports }

RECURSIVE PieceStrings(_)
PieceStrings(n) ==
  IF n = 0 THEN {<< >>}
  ELSE {p \o s : p \in Pieces, s \in PieceStrings(n - 1)} \cup PieceStrings(n - 1)

CellTexts == PieceStrings(MaxPieces)

CellInit ==
  /\ pc = "cell"
  /\ cell_text \in CellTexts
  /\ cell_period \in {1, PERIODS_PER_DAY}
  /\ cell_next \in {<< >>, << "a" >>}
  /\ cell_lessons = << >>
  /\ period_data = None
  /\ split_result = None
  /\ grid = << >>
  /\ header_row = << >>
  /\ weekday_start_cols = EmptyDict
  /\ weekday_column_ranges = EmptyDict
  /\ row_idx = 0
  /\ timetable = EmptyDict
  /\ class_count = 0
  /\ result = None
  /\ statistics = None
  /\ OuterIdle

\* lines 245-249: the cell is empty after trimming
CellSkip ==
  /\ pc = "cell"
  /\ IsEmptyCell(Strip(cell_text))
  /\ pc' = "cell_empty"
  /\ UNCHANGED cellVars
  /\ UNCHANGED pipelineVars
  /\ UNCHANGED outerVars

\* lines 263, 276, 305
CellParse ==
  /\ pc = "cell"
  /\ ~IsEmptyCell(Strip(cell_text))
  /\ period_data' = ParseCell(Strip(cell_text), cell_period)
  /\ pc' = "cell_parsed"
  /\ UNCHANGED << cell_text, cell_period, cell_next, cell_lessons, split_result >>
  /\ UNCHANGED pipelineVars
  /\ UNCHANGED outerVars

\* the row that holds the cell in the column of its period and the next cell after
\* it, for a weekday whose range is the whole row
CellRow == [c \in 1..(cell_period + 1) |->
              IF c = cell_period THEN cell_text
              ELSE IF c = cell_period + 1 THEN cell_next ELSE << >>]

\* lines 251-271: split_courses at line 274; _detect_and_split_duplicate_course
\* is called only when the next period has an empty cell inside the window
CellDetect ==
  /\ pc = "cell_parsed"
  /\ period_data # None
  /\ split_result' = SplitCourses(CellRow, 0, MaxCols(CellRow, << 0, Len(CellRow) >>),
                                  cell_period, Strip(cell_text))
  /\ pc' = "cell_checked"
  /\ UNCHANGED << cell_text, cell_period, cell_next, cell_lessons, period_data >>
  /\ UNCHANGED pipelineVars
  /\ UNCHANGED outerVars

\* lines 234-309 on the row of the cell
CellWalk ==
  /\ pc = "cell_checked"
  /\ cell_lessons' = Walk(CellRow, 0, MaxCols(CellRow, << 0, Len(CellRow) >>),
                          1, {}, << >>).lessons
  /\ pc' = "cell_walked"
  /\ UNCHANGED << cell_text, cell_period, cell_next, period_data, split_result >>
  /\ UNCHANGED pipelineVars
  /\ UNCHANGED outerVars

CellNext ==
  \/ CellSkip
  \/ CellParse
  \/ CellDetect
  \/ CellWalk

SpecCell == CellInit /\ [][CellNext]_vars

-----------------------------------------------------------------------------
(* Properties of parse_to_json *)

\* the data rows of the grid, as 1-based positions in grid
DataRows == 3..Len(grid)

NonEmptyCell(row, c) == c < Len(row) /\ ~IsEmptyCell(Strip(row[c + 1]))

\* some cell of the header row contains the name of weekday d
Present(header, d) == \E c \in 1..Len(header) : Contains(d, header[c])

\* C1: a grid of fewer than 3 rows makes parse_to_json fail: it returns None, builds
\* no timetable and no statistics, whatever the cells hold
C1_TooFewRowsFail ==
  Len(grid) < 3 =>
    /\ pc \in {"start", "failed"}
    /\ result = None
    /\ DOMAIN timetable = {}
    /\ statistics = None

\* a grid of two rows, a header that names a weekday and a class row with a course,
\* has been refused
C1_Witness ==
  /\ pc = "failed"
  /\ Len(grid) = 2
  /\ \E d \in WeekdayNames : Present(grid[1], d)
  /\ IsClassRow(grid[2], ClassName(grid[2]))
  /\ NonEmptyCell(grid[2], 1)

\* C2: a grid of at least 3 rows whose header row names no weekday makes
\* parse_to_json fail (None), whatever the data rows hold
C2_NoWeekdayFail ==
  (Len(grid) >= 3 /\ \A d \in WeekdayNames : ~Present(grid[1], d)) =>
    /\ pc \in {"start", "step1", "failed"}
    /\ result = None
    /\ DOMAIN timetable = {}
    /\ statistics = None

\* a grid with a class row full of courses under a header without weekday has
\* been refused
C2_Witness ==
  /\ pc = "failed"
  /\ Len(grid) >= 3
  /\ \E r \in DataRows :
       /\ IsClassRow(grid[r], ClassName(grid[r]))
       /\ ClassPattern(ClassName(grid[r]), TRUE)
       /\ \A c \in 1..(Len(grid[r]) - 1) : NonEmptyCell(grid[r], c)

-----------------------------------------------------------------------------
(* Properties of the weekday column mapper *)

WeekdayIndex(d) == CHOOSE i \in 1..Len(WEEKDAYS) : WEEKDAYS[i] = d

\* the first column (0-based) of the header whose cell contains the name of d
FirstColumn(header, d) ==
  (CHOOSE c \in 1..Len(header) :
     Contains(d, header[c]) /\ \A k \in 1..(c - 1) : ~Contains(d, header[k])) - 1

\* the weekdays after d, in the order of WEEKDAYS, that the header names
LaterPresent(header, d) ==
  {j \in (WeekdayIndex(d) + 1)..Len(WEEKDAYS) : Present(header, WEEKDAYS[j])}

EndColumn(header, d) ==
  IF LaterPresent(header, d) = {} THEN Len(header)
  ELSE FirstColumn(header,
         WEEKDAYS[CHOOSE j \in LaterPresent(header, d) :
                    \A k \in LaterPresent(header, d) : j <= k])

\* C8: the weekdays with a range are those the header names; the range of each is
\* (first column naming it, first column naming the next weekday the header names,
\* or the number of columns when the header names no later weekday)
C8_WeekdayRanges ==
  pc \in {"step3", "done", "formatted", "stats"} =>
    /\ DOMAIN weekday_column_ranges = {d \in WeekdayNames : Present(grid[1], d)}
    /\ \A d \in DOMAIN weekday_column_ranges :
         weekday_column_ranges[d] = << FirstColumn(grid[1], d), EndColumn(grid[1], d) >>

\* a header that names a weekday in two columns, skips the weekday after it and
\* names a later one: the range ends at the later one's first column
C8_Witness ==
  /\ pc = "step3"
  /\ \E d \in DOMAIN weekday_column_ranges :
       /\ \E c1, c2 \in 1..Len(grid[1]) :
            c1 # c2 /\ Contains(d, grid[1][c1]) /\ Contains(d, grid[1][c2])
       /\ WeekdayIndex(d) + 1 <= Len(WEEKDAYS)
       /\ ~Present(grid[1], WEEKDAYS[WeekdayIndex(d) + 1])
       /\ LaterPresent(grid[1], d) # {}
       /\ weekday_column_ranges[d][2] # Len(grid[1])
       /\ weekday_column_ranges[d][2] > weekday_column_ranges[d][1]

-----------------------------------------------------------------------------
(* Properties of the column walk *)

\* the loop of parse_to_json has just parsed a class row
RowParsed ==
  /\ pc = "step3"
  /\ row_idx > 2
  /\ IsClassRow(grid[row_idx], ClassName(grid[row_idx]))

\* that row and the schedule made of it
ParsedRow == grid[row_idx]

ParsedSchedule == timetable[ClassName(grid[row_idx])]

\* column c lies in the window walked for the range << start, end >> on the row
InWindow(row, range, c) ==
  /\ range[1] <= c
  /\ c < range[1] + 9
  /\ c < range[2]
  /\ c < Len(row)

\* the lessons of list whose period is p
LessonsAt(list, p) == {i \in 1..Len(list) : list[i].period = p}

\* the lesson comes from the text of a cell: its teacher fields are those
\* _parse_cell gives for the text and its course is the parsed course or its half
ProducedFrom(lesson, text) ==
  LET parsed == ParseCell(Strip(text), lesson.period)
  IN  /\ parsed # None
      /\ lesson.teacher = parsed[1].teacher
      /\ lesson.is_class_teacher = parsed[1].is_class_teacher
      /\ \/ lesson.course = parsed[1].course
         \/ lesson.course \o lesson.course = parsed[1].course

\* C7: for a class row and a weekday with range [start_col, end_col), the non-empty
\* cell at column c of the window start_col <= c < min(start_col + 9, end_col, row
\* length) gives a lesson of period c - start_col + 1; every lesson of the weekday
\* comes from such a cell, at that period or, for the second lesson of a split, at
\* the period after it; a weekday without range has no lesson
C7_PeriodOfColumn ==
  RowParsed =>
    \A d \in WeekdayNames :
      IF d \notin DOMAIN weekday_column_ranges THEN ParsedSchedule[d] = << >>
      ELSE LET range == weekday_column_ranges[d]
               list == ParsedSchedule[d]
           IN  /\ \A c \in 0..(Len(ParsedRow) - 1) :
                    (InWindow(ParsedRow, range, c) /\ NonEmptyCell(ParsedRow, c)) =>
                      \E i \in LessonsAt(list, c - range[1] + 1) :
                        ProducedFrom(list[i], ParsedRow[c + 1])
               /\ \A i \in 1..Len(list) :
                    LET c == range[1] + list[i].period - 1
                    IN  /\ InWindow(ParsedRow, range, c)
                        /\ \/ /\ NonEmptyCell(ParsedRow, c)
                              /\ ProducedFrom(list[i], ParsedRow[c + 1])
                           \/ /\ ~NonEmptyCell(ParsedRow, c)
                              /\ InWindow(ParsedRow, range, c - 1)
                              /\ NonEmptyCell(ParsedRow, c - 1)
                              /\ ProducedFrom(list[i], ParsedRow[c])
                              /\ list[i].course \o list[i].course =
                                   ParseCell(Strip(ParsedRow[c]), 1)[1].course

\* Monday anchored at column 1 and Tuesday at column 10: the cells at columns 1 and
\* 2 are Monday's periods 1 and 2, and the cells from column 10 on are not Monday's
C7_Witness ==
  /\ RowParsed
  /\ WEEKDAYS[1] \in DOMAIN weekday_column_ranges
  /\ WEEKDAYS[2] \in DOMAIN weekday_column_ranges
  /\ weekday_column_ranges[WEEKDAYS[1]] = << 1, 10 >>
  /\ NonEmptyCell(ParsedRow, 1) /\ NonEmptyCell(ParsedRow, 2)
  /\ NonEmptyCell(ParsedRow, 10) /\ NonEmptyCell(ParsedRow, 11)
  /\ Len(ParsedSchedule[WEEKDAYS[1]]) = 9
  /\ ParsedSchedule[WEEKDAYS[1]][1].period = 1
  /\ ParsedSchedule[WEEKDAYS[1]][2].period = 2
  /\ Len(ParsedSchedule[WEEKDAYS[2]]) = 2

\* the number of lessons of a class
LessonCount(class_data) ==
  Cardinality({<< d, i >> \in (DOMAIN class_data) \X (1..45) : i <= Len(class_data[d])})

\* C6: in the timetable parse_to_json returns, every weekday list of every class has
\* at most 9 lessons, every period is in 1..9, and a class has at most 45 lessons
C6_AtMostNinePerDay ==
  pc \in {"done", "formatted", "stats"} =>
    \A c \in DOMAIN result[1] :
      /\ \A d \in DOMAIN result[1][c] :
           /\ Len(result[1][c][d]) <= 9
           /\ \A i \in 1..Len(result[1][c][d]) : result[1][c][d][i].period \in 1..9
      /\ LessonCount(result[1][c]) <= 45

\* a class row with more than 9 courses in the columns of one weekday's range got
\* exactly 9 lessons for that weekday
C6_Witness ==
  /\ pc = "done"
  /\ Len(grid) = 3
  /\ \E d \in DOMAIN weekday_column_ranges :
       /\ weekday_column_ranges[d][2] > weekday_column_ranges[d][1] + 9
       /\ \A c \in weekday_column_ranges[d][1]..(weekday_column_ranges[d][1] + 9) :
            NonEmptyCell(grid[3], c)
       /\ ClassName(grid[3]) \in DOMAIN result[1]
       /\ Len(result[1][ClassName(grid[3])][d]) = 9

\* the first halves s of the texts X = s \o s for which text is X, a line break
\* and a rest
Halves(text) ==
  {SubSeq(text, 1, (j - 1) \div 2) :
     j \in {i \in 1..Len(text) :
              /\ text[i] = "\n"
              /\ i - 1 >= 2
              /\ (i - 1) % 2 = 0
              /\ SubSeq(text, 1, (i - 1) \div 2) = SubSeq(text, (i - 1) \div 2 + 1, i - 1)}}

\* the list holds exactly one lesson of period p and one of period p + 1, next to
\* each other, both of course s with the teacher fields of parsed
SplitInTwo(list, p, s, parsed) ==
  /\ parsed # None
  /\ Cardinality(LessonsAt(list, p)) = 1
  /\ Cardinality(LessonsAt(list, p + 1)) = 1
  /\ \E i \in 1..(Len(list) - 1) :
       /\ list[i] = [period |-> p, course |-> s, teacher |-> parsed[1].teacher,
                     is_class_teacher |-> parsed[1].is_class_teacher]
       /\ list[i + 1] = [period |-> p + 1, course |-> s, teacher |-> parsed[1].teacher,
                         is_class_teacher |-> parsed[1].is_class_teacher]

NoActivity(text) == ~Contains(ClassMeeting, text) /\ ~Contains(SunshineSports, text)

\* s has no line break and neither starts nor ends with whitespace
PlainCourse(s) ==
  /\ \A i \in 1..Len(s) : s[i] # "\n"
  /\ s[1] \notin Whitespace
  /\ s[Len(s)] \notin Whitespace

\* the split law for the cells of the parsed row; with plain = TRUE only for the
\* cells without activity marker whose s is a plain course
SplitLaw(plain) ==
  RowParsed =>
    \A d \in DOMAIN weekday_column_ranges :
      \A p \in 1..8 :
        LET range == weekday_column_ranges[d]
            c == range[1] + p - 1
        IN  ( /\ InWindow(ParsedRow, range, c)
              /\ InWindow(ParsedRow, range, c + 1)
              /\ NonEmptyCell(ParsedRow, c)
              /\ ~NonEmptyCell(ParsedRow, c + 1) ) =>
              \A s \in Halves(ParsedRow[c + 1]) :
                (plain => NoActivity(ParsedRow[c + 1]) /\ PlainCourse(s)) =>
                  SplitInTwo(ParsedSchedule[d], p, s, ParseCell(Strip(ParsedRow[c + 1]), p))

\* C3 as claimed: every non-empty cell X + line break + T with X = s + s, followed in
\* the window by an empty cell, gives exactly two lessons of course s, at p and p + 1
C3_SplitLawAnyText == SplitLaw(FALSE)

\* C3 amended: the same for the cells that contain no activity marker and whose s
\* has no line break and no leading or trailing whitespace
C3_SplitLaw == SplitLaw(TRUE)

\* a doubled course with a class teacher, followed by an empty cell, was split
C3_Witness ==
  /\ RowParsed
  /\ \E d \in DOMAIN weekday_column_ranges :
       \E p \in 1..8 :
         LET range == weekday_column_ranges[d]
             c == range[1] + p - 1
         IN  /\ InWindow(ParsedRow, range, c)
             /\ InWindow(ParsedRow, range, c + 1)
             /\ NonEmptyCell(ParsedRow, c)
             /\ ~NonEmptyCell(ParsedRow, c + 1)
             /\ NoActivity(ParsedRow[c + 1])
             /\ \E s \in Halves(ParsedRow[c + 1]) :
                  /\ PlainCourse(s)
                  /\ SplitInTwo(ParsedSchedule[d], p, s, ParseCell(Strip(ParsedRow[c + 1]), p))
                  /\ \E i \in LessonsAt(ParsedSchedule[d], p + 1) :
                       ParsedSchedule[d][i].is_class_teacher

-----------------------------------------------------------------------------
(* Properties of the row classifier and of the statistics *)

\* C9: the loop step over a data row whose first cell is empty after trimming
\* changes neither the timetable nor the class count, whatever its other cells
\* hold; the empty name is never a class of the timetable, and total_classes is the
\* number of names of the class rows
C9_EmptyLabelSkipped ==
  /\ [][(pc = "step3" /\ row_idx < Len(grid) /\ Strip(grid[row_idx + 1][1]) = << >>) =>
          (timetable' = timetable /\ class_count' = class_count)]_vars
  /\ [](<< >> \notin DOMAIN timetable)
  /\ [](pc = "stats" =>
          statistics[1].total_classes =
            Cardinality({ClassName(grid[r]) :
                           r \in {x \in DataRows : /\ Strip(grid[x][1]) # << >>
                                                   /\ IsClassRow(grid[x], ClassName(grid[x]))}}))

\* a row with an empty first cell and courses after it was passed, beside a class row
C9_Witness ==
  /\ pc = "stats"
  /\ statistics[1].total_classes = 1
  /\ \E r \in DataRows :
       /\ Strip(grid[r][1]) = << >>
       /\ grid[r][1] # << >>
       /\ \A c \in 1..(Len(grid[r]) - 1) : NonEmptyCell(grid[r], c)

\* C10: get_statistics returns the number of classes of the timetable and the
\* number of lessons of all weekday lists of all classes, and the timetable it was
\* given is still the one parse_to_json built
C10_Statistics ==
  pc = "stats" =>
    /\ statistics[1].total_classes = Cardinality(DOMAIN result[1])
    /\ statistics[1].total_periods =
         Cardinality({<< c, d, i >> \in (DOMAIN result[1]) \X WeekdayNames \X (1..9) :
                        i <= Len(result[1][c][d])})
    /\ result = Some(timetable)

\* two classes with different numbers of lessons, several of them on one weekday
C10_Witness ==
  /\ pc = "stats"
  /\ statistics[1].total_classes = 2
  /\ \E c1, c2 \in DOMAIN result[1] :
       /\ LessonCount(result[1][c1]) < LessonCount(result[1][c2])
       /\ LessonCount(result[1][c1]) > 0
       /\ statistics[1].total_periods = LessonCount(result[1][c1]) + LessonCount(result[1][c2])
       /\ \E d \in WeekdayNames : Len(result[1][c2][d]) >= 2

-----------------------------------------------------------------------------
(* Properties of the cell parser and of the duplicate-course splitter *)

\* c is some non-empty s written twice
IsDoubled(c) ==
  /\ Len(c) >= 2
  /\ \E k \in 1..Len(c) : c = SubSeq(c, 1, k) \o SubSeq(c, 1, k)

\* the walk reaches line 267 with the course of the cell: the next period exists
\* and its cell, which CellRow puts inside the window, is empty
SplitterCalled == cell_period < PERIODS_PER_DAY /\ IsEmptyCell(Strip(cell_next))

\* C4: on the course of a cell it is called with, _detect_and_split_duplicate_course
\* returns a split exactly when the course has at least 2 characters and is some s
\* written twice, and the split is then (s, s); a course of length 0 or 1 or of odd
\* length is not split; a cell whose course is not split gives one lesson, at its
\* period, with the whole course
C4_SplitIffDoubled ==
  pc \in {"cell_checked", "cell_walked"} =>
    LET c == period_data[1].course
    IN  /\ SplitterCalled => (split_result # None <=> IsDoubled(c))
        /\ split_result # None =>
             /\ SplitterCalled
             /\ split_result[1][1] = split_result[1][2]
             /\ split_result[1][1] # << >>
             /\ split_result[1][1] \o split_result[1][2] = c
        /\ (Len(c) < 2 \/ Len(c) % 2 = 1) => split_result = None
        /\ (pc = "cell_walked" /\ split_result = None) =>
             /\ Cardinality(LessonsAt(cell_lessons, cell_period)) = 1
             /\ cell_lessons[1].period = cell_period
             /\ cell_lessons[1].course = c
             /\ IsEmptyCell(Strip(cell_next)) => Len(cell_lessons) = 1

\* a course of two characters written twice was split in its halves
C4_Witness ==
  /\ pc = "cell_walked"
  /\ SplitterCalled
  /\ period_data[1].course = << "a", "b", "a", "b" >>
  /\ split_result = Some(<< << "a", "b" >>, << "a", "b" >> >>)
  /\ Len(cell_lessons) = 2

\* the cell is parsed as course and teacher and has a teacher part
HasTeacherPart(cell_value) == NoActivity(cell_value) /\ Len(Split(cell_value, "\n")) > 1

TeacherText(cell_value) == Strip(Split(cell_value, "\n")[2])

HasMarker(text) == Contains(MarkerFull, text) \/ Contains(MarkerHalf, text)

\* C5: for a cell with a teacher part, is_class_teacher is true exactly when the
\* teacher text contains one of the two markers, the teacher returned then contains
\* no marker of either variant, and without marker the teacher text is returned
\* unchanged
C5_MarkerLaw ==
  (pc \in {"cell_parsed", "cell_checked", "cell_walked"} /\ HasTeacherPart(Strip(cell_text))) =>
    LET text == TeacherText(Strip(cell_text))
        lesson == period_data[1]
    IN  /\ lesson.is_class_teacher = HasMarker(text)
        /\ HasMarker(text) => (lesson.teacher # None /\ ~HasMarker(lesson.teacher[1]))
        /\ ~HasMarker(text) => lesson.teacher = Some(text)

-----------------------------------------------------------------------------
(* Properties of the serialized timetable: csv_to_json_internal has called
   format_timetable on the timetable parse_to_json returned *)

Formatted == pc \in {"formatted", "stats"}

\* the class entries of the serialized timetable
Classes == formatted[1].classes

\* C12: in the serialized timetable, the schedule of a class has the key of a
\* weekday only if the header row names that weekday (the weekday has a mapped
\* column); a weekday the header does not name has no key in any class entry
C12_KeysOnlyOfMappedWeekdays ==
  Formatted =>
    \A i \in 1..Len(Classes) : \A d \in WeekdayNames :
      WEEKDAY_EN_MAP[d] \in DOMAIN Classes[i].schedule => Present(grid[1], d)

\* the last data row (1-based position in grid) that gave the class its schedule
LastRowOf(c) ==
  CHOOSE r \in DataRows :
    /\ IsClassRow(grid[r], ClassName(grid[r])) /\ ClassName(grid[r]) = c
    /\ \A q \in DataRows :
         (IsClassRow(grid[q], ClassName(grid[q])) /\ ClassName(grid[q]) = c) => q <= r

\* C13: in the timetable parse_to_json returns, a weekday the header row does not
\* name has an empty list in the schedule of every class, and the list of a weekday
\* the header names is the walk of the class row over the columns from the first one
\* naming it to the first one naming a later weekday, whatever weekdays are missing
C13_AbsentWeekdayEmpty ==
  pc \in {"done", "formatted", "stats"} =>
    \A c \in DOMAIN result[1] : \A d \in WeekdayNames :
      /\ d \in DOMAIN result[1][c]
      /\ IF ~Present(grid[1], d) THEN result[1][c][d] = << >>
         ELSE LET row == grid[LastRowOf(c)]
                  start == FirstColumn(grid[1], d)
                  end == EndColumn(grid[1], d)
              IN  result[1][c][d] =
                    Walk(row, start, Min(Min(start + 9, end), Len(row)), 1, {}, << >>).lessons

\* the header names Friday only, and a class has lessons on Friday and none on
\* the other weekdays although its row has courses in every column
C13_Witness ==
  /\ pc = "done"
  /\ \A i \in 1..4 : ~Present(grid[1], WEEKDAYS[i])
  /\ \E c \in DOMAIN result[1] :
       /\ result[1][c][WEEKDAYS[5]] # << >>
       /\ \A i \in 1..4 : result[1][c][WEEKDAYS[i]] = << >>
       /\ \A k \in 1..(Len(grid[LastRowOf(c)]) - 1) : NonEmptyCell(grid[LastRowOf(c)], k)

\* C14: format_timetable gives one class entry for each class name of the
\* timetable, the entries ascend by class name, and the weekday lists of an entry are
\* the lists of the class in the timetable, lesson for lesson
C14_FormatSorted ==
  Formatted =>
    /\ Len(Classes) = Cardinality(DOMAIN result[1])
    /\ {Classes[i].class_name : i \in 1..Len(Classes)} = DOMAIN result[1]
    /\ \A i, j \in 1..Len(Classes) :
         i < j => StrLess(Classes[i].class_name, Classes[j].class_name)
    /\ \A i \in 1..Len(Classes) :
         /\ DOMAIN Classes[i].schedule \subseteq {WEEKDAY_EN_MAP[d] : d \in WeekdayNames}
         /\ \A d \in DOMAIN result[1][Classes[i].class_name] :
              /\ WEEKDAY_EN_MAP[d] \in DOMAIN Classes[i].schedule
              /\ Classes[i].schedule[WEEKDAY_EN_MAP[d]] = result[1][Classes[i].class_name][d]

\* two classes whose rows come in the grid in the order opposite to that of their
\* names, each with lessons, have been serialized
C14_Witness ==
  /\ pc = "formatted"
  /\ Len(grid) = 4
  /\ Len(Classes) = 2
  /\ Classes[1].class_name = ClassName(grid[4])
  /\ Classes[2].class_name = ClassName(grid[3])
  /\ \A i \in 1..2 : \E en \in DOMAIN Classes[i].schedule : Classes[i].schedule[en] # << >>

-----------------------------------------------------------------------------
(* Properties of the repeated conversion *)

\* the second conversion has ended
SecondRunOver == run = 2 /\ pc \in {"failed", "stats"}

\* C11: the second conversion of a grid ends as the first one did: the same
\* timetable (or the same failure), the same serialized timetable and the same
\* statistics, although it starts from the state the first one left
C11_RerunSameOutcome ==
  SecondRunOver => first_run = Some(Outcome)

\* a grid with two classes and lessons has been converted twice
C11_Witness ==
  /\ run = 2
  /\ pc = "stats"
  /\ statistics[1].total_classes = 2
  /\ statistics[1].total_periods > 2
  /\ first_run # None

-----------------------------------------------------------------------------
(* Properties of the row classifier *)

\* the row is a class row as the classifier is described: a first cell that is
\* not empty after trimming (neither '' nor the text 'nan', which the code takes for
\* a missing cell) and either starts with a class name or stands before a non-empty
\* cell in one of the columns 1..9
DescribedClassRow(row) ==
  /\ ~IsEmptyCell(Strip(row[1]))
  /\ \/ ClassPattern(Strip(row[1]), TRUE)
     \/ \E c \in 1..9 : NonEmptyCell(row, c)

\* the data rows (1-based positions in grid) the loop has gone through
RowsDone == 3..row_idx

\* C18: a data row is added to the timetable exactly when its trimmed first cell is
\* not empty and it starts with the class-name pattern or a cell in columns 1..9 is
\* not empty: the classes counted and the keys of the timetable are those of such
\* rows; a row with another label and courses only from column 10 on is skipped
C18_ClassRowIff ==
  pc \in {"step3", "done", "formatted", "stats"} =>
    /\ class_count = Cardinality({r \in RowsDone : DescribedClassRow(grid[r])})
    /\ DOMAIN timetable =
         {ClassName(grid[r]) : r \in {q \in RowsDone : DescribedClassRow(grid[q])}}

\* a row with a label that is no class name and courses only in the columns from
\* 10 on, under a header that names weekdays, has been skipped
C18_Witness ==
  /\ pc = "done"
  /\ Len(grid) = 3
  /\ ~IsEmptyCell(Strip(grid[3][1]))
  /\ ~ClassPattern(Strip(grid[3][1]), TRUE)
  /\ \A c \in 1..9 : ~NonEmptyCell(grid[3], c)
  /\ NonEmptyCell(grid[3], 10)
  /\ class_count = 0
  /\ result = Some(EmptyDict)

-----------------------------------------------------------------------------
(* Properties of the cell parser *)

\* _parse_cell has been called on the trimmed, non-empty text of the cell
CellParsed == pc \in {"cell_parsed", "cell_checked", "cell_walked"}

CellValue == Strip(cell_text)

\* the text before the first line break of s, and the text after it
BeforeBreak(s) ==
  IF Contains(NL, s)
  THEN SubSeq(s, 1, (CHOOSE i \in 1..Len(s) : s[i] = "\n" /\ \A k \in 1..(i - 1) : s[k] # "\n") - 1)
  ELSE s

AfterBreak(s) ==
  SubSeq(s, (CHOOSE i \in 1..Len(s) : s[i] = "\n" /\ \A k \in 1..(i - 1) : s[k] # "\n") + 1,
         Len(s))

\* C19: a cell that contains the class-meeting marker gives the class-meeting
\* lesson (no teacher, no class teacher), also when it contains the sports marker
\* too; a cell with the sports marker and without the class-meeting marker gives
\* the sports lesson; only a cell with neither marker is parsed as course and
\* teacher, its course being its trimmed first line
C19_ActivityOrder ==
  CellParsed =>
    /\ Contains(ClassMeeting, CellValue) =>
         period_data = Some([period |-> cell_period, course |-> ClassMeeting,
                             teacher |-> None, is_class_teacher |-> FALSE])
    /\ (~Contains(ClassMeeting, CellValue) /\ Contains(SunshineSports, CellValue)) =>
         period_data = Some([period |-> cell_period, course |-> SunshineSports,
                             teacher |-> None, is_class_teacher |-> FALSE])
    /\ (~Contains(ClassMeeting, CellValue) /\ ~Contains(SunshineSports, CellValue)) =>
         \/ period_data = None
         \/ /\ period_data[1].course = Strip(BeforeBreak(CellValue))
            /\ period_data[1].period = cell_period

\* a cell with the sports marker first, then the class-meeting marker, then a
\* teacher line with the class-teacher marker, was parsed as the class meeting
C19_Witness ==
  /\ pc = "cell_parsed"
  /\ cell_text = SunshineSports \o ClassMeeting \o NL \o MarkerFull
  /\ period_data # None
  /\ period_data[1].course = ClassMeeting
  /\ period_data[1].teacher = None
  /\ ~period_data[1].is_class_teacher

\* C20: a cell without activity marker is split at its first line break: the
\* trimmed text before it is the course, and everything after it is the teacher
\* part (from which the teacher and the class-teacher flag are taken); without a
\* line break the teacher is null; with an empty course there is no lesson
C20_SplitAtFirstBreak ==
  (CellParsed /\ ~Contains(ClassMeeting, CellValue) /\ ~Contains(SunshineSports, CellValue)) =>
    IF Strip(BeforeBreak(CellValue)) = << >> THEN period_data = None
    ELSE /\ period_data # None
         /\ period_data[1].course = Strip(BeforeBreak(CellValue))
         /\ IF ~Contains(NL, CellValue)
            THEN period_data[1].teacher = None /\ ~period_data[1].is_class_teacher
            ELSE << period_data[1].teacher, period_data[1].is_class_teacher >> =
                   CleanTeacher(Some(Strip(AfterBreak(CellValue))))

-----------------------------------------------------------------------------
(* Properties of the file routes *)

\* the request has been answered and the after_request hook has run
Completed == pc = "completed"

\* the upload passed the validation of its route
Accepted ==
  IF route = "api_parse" THEN ApiValidate(upload) = None
  ELSE ValidateFileUpload(upload, AllowedExtensions(route))[2] = None

\* C15: once a request that passed the validation of its upload has completed,
\* the temporary upload file and the CSV file made for the request do not exist,
\* however the request ended
C15_TempFilesRemoved ==
  (Completed /\ Accepted) => files = {}

\* C16: on the routes of handlers.py, a request whose upload fails the validation
\* (no 'file' field, an empty filename, an extension that is not allowed) is
\* answered with status 400 and success = false, and no temporary file is made for it
C16_RejectedWith400 ==
  (route \in Routes /\ pc \in {"returned", "completed"} /\ ~Accepted) =>
    /\ response # None
    /\ response[1].status = 400
    /\ response[1].success = FALSE
    /\ files = {}
    /\ temp_path = None

\* the table of the request cannot be converted: parse_to_json returns None
NotConvertible == ParseToJson(content.readable, content.grid) = None

\* C17: when parse_to_json returns None for the table of the request (fewer than
\* 3 rows, no weekday in the header row, a read error), /api/csv/to-json and
\* /api/timetable/parse of handlers.py (once the table has been extracted) answer with status 400
\* and the message that the CSV could not be parsed, not with 500
C17_NotConvertibleIs400 ==
  (/\ pc \in {"returned", "completed"}
   /\ Accepted
   /\ NotConvertible
   /\ \/ route = "to_json"
      \/ route = "parse" /\ csv_path # None) =>
    /\ response[1].status = 400
    /\ response[1].success = FALSE
    /\ response[1].message = "csv_parse_failed"

-----------------------------------------------------------------------------
(* Properties of the weekday lists *)

\* the lesson at position i of the list is the second half of a split: the cell
\* of its period is empty
SecondHalf(row, range, list, i) == ~NonEmptyCell(row, range[1] + list[i].period - 1)

\* C21: in every weekday list of every class of the returned timetable the periods
\* ascend strictly from lesson to lesson: no period has two lessons, and the period
\* of the second half of a split is not filled again, however many splits the
\* weekday has
C21_PeriodsAscend ==
  pc \in {"done", "formatted", "stats"} =>
    \A c \in DOMAIN result[1] : \A d \in DOMAIN result[1][c] :
      LET list == result[1][c][d]
      IN  /\ \A i \in 1..(Len(list) - 1) : list[i].period < list[i + 1].period
          /\ \A p \in 1..9 : Cardinality(LessonsAt(list, p)) <= 1

\* a weekday list with two splits: two of its lessons are second halves
C21_Witness ==
  /\ pc = "done"
  /\ \E c \in DOMAIN result[1] : \E d \in DOMAIN weekday_column_ranges :
       LET list == result[1][c][d]
           row == grid[LastRowOf(c)]
       IN  \E i, j \in 2..Len(list) :
             /\ i < j
             /\ SecondHalf(row, weekday_column_ranges[d], list, i)
             /\ SecondHalf(row, weekday_column_ranges[d], list, j)
             /\ list[i].period = list[i - 1].period + 1
             /\ list[j].period = list[j - 1].period + 1

\* the course text of a cell that is no activity: its trimmed first line
CourseText(text) == Strip(BeforeBreak(Strip(text)))

\* the cell at column c of the row is no activity and its course text is some
\* non-empty s written twice
DoubledCell(row, c) ==
  /\ NonEmptyCell(row, c)
  /\ NoActivity(row[c + 1])
  /\ IsDoubled(CourseText(row[c + 1]))

\* C22: a cell of the walked window whose course text is a doubled string s + s is
\* split (lessons of course s at p and p + 1) only when p < 9, the next column is
\* inside the window and the next cell is empty; at period 9, in the last column of
\* the window, or before a non-empty cell, it gives exactly one lesson at p, whose
\* course is the whole doubled text, and a next column outside the window gives no
\* lesson at p + 1
C22_SplitOnlyInsideWindow ==
  RowParsed =>
    \A d \in DOMAIN weekday_column_ranges : \A p \in 1..9 :
      LET range == weekday_column_ranges[d]
          c == range[1] + p - 1
          list == ParsedSchedule[d]
          inside == p < 9 /\ InWindow(ParsedRow, range, c + 1)
      IN  (InWindow(ParsedRow, range, c) /\ DoubledCell(ParsedRow, c)) =>
            /\ Cardinality(LessonsAt(list, p)) = 1
            /\ \A i \in LessonsAt(list, p) :
                 /\ list[i].course \o list[i].course = CourseText(ParsedRow[c + 1])
                      => (inside /\ ~NonEmptyCell(ParsedRow, c + 1))
                 /\ ~(inside /\ ~NonEmptyCell(ParsedRow, c + 1))
                      => list[i].course = CourseText(ParsedRow[c + 1])
            /\ ~inside => LessonsAt(list, p + 1) = {}

\* a doubled course before period 9, in the last column of its weekday's range and
\* followed by an empty cell that belongs to the next weekday, was not split
C22_Witness ==
  /\ RowParsed
  /\ \E d \in DOMAIN weekday_column_ranges : \E p \in 1..8 :
       LET range == weekday_column_ranges[d]
           c == range[1] + p - 1
           list == ParsedSchedule[d]
       IN  /\ c + 1 = range[2]
           /\ c + 1 < Len(ParsedRow)
           /\ InWindow(ParsedRow, range, c)
           /\ DoubledCell(ParsedRow, c)
           /\ ~NonEmptyCell(ParsedRow, c + 1)
           /\ \E i \in LessonsAt(list, p) : list[i].course = CourseText(ParsedRow[c + 1])
           /\ LessonsAt(list, p + 1) = {}

-----------------------------------------------------------------------------
(* Properties of the conversion as a whole *)

\* the data rows (1-based positions in grid) that are class rows
ClassRows == {r \in DataRows : IsClassRow(grid[r], ClassName(grid[r]))}

\* every cell of the row is empty after trimming
BlankRow(row) == \A c \in 0..(Len(row) - 1) : ~NonEmptyCell(row, c)

\* C23: a grid of at least 3 rows whose header row names at least one weekday never
\* makes parse_to_json fail: it returns a timetable with an entry for every class row
\* and a list (possibly empty) for every weekday, whatever blank rows, blank cells
\* or missing cells the data rows have
C23_NoAbortOnSparseGrid ==
  (Len(grid) >= 3 /\ \E d \in WeekdayNames : Present(grid[1], d)) =>
    /\ pc # "failed"
    /\ pc \in {"done", "formatted", "stats"} =>
         /\ result # None
         /\ DOMAIN result[1] = {ClassName(grid[r]) : r \in ClassRows}
         /\ \A c \in DOMAIN result[1] : DOMAIN result[1][c] = WeekdayNames

\* a header that names some weekdays only, a blank data row and a class row whose
\* cells after the first are all empty: the timetable has that class, with five
\* empty lists
C23_Witness ==
  /\ pc = "done"
  /\ \E d \in WeekdayNames : ~Present(grid[1], d)
  /\ \E r \in DataRows : BlankRow(grid[r])
  /\ \E r \in ClassRows :
       /\ \A c \in 1..(Len(grid[r]) - 1) : ~NonEmptyCell(grid[r], c)
       /\ ClassName(grid[r]) \in DOMAIN result[1]
       /\ \A d \in WeekdayNames : result[1][ClassName(grid[r])][d] = << >>

\* the class rows (1-based positions in grid) whose trimmed first cell is c
RowsNamed(c) == {r \in ClassRows : ClassName(grid[r]) = c}

\* the lessons of the schedules of the names, one triple for each name, weekday
\* and position in the weekday's list
LessonsOf(names, schedule_of) ==
  {t \in names \X WeekdayNames \X (1..PERIODS_PER_DAY) : t[3] <= Len(schedule_of[t[1]][t[2]])}

\* C24: the timetable has one entry for each distinct trimmed first cell of the
\* class rows; the schedule of a name that several class rows have is the one parsed
\* from the last of them, with nothing of the earlier rows in it; total_classes is
\* the number of distinct names and total_periods the number of lessons of those
\* entries
C24_LastRowWins ==
  pc \in {"done", "formatted", "stats"} =>
    LET names == {ClassName(grid[r]) : r \in ClassRows}
    IN  /\ DOMAIN result[1] = names
        /\ \A c \in names :
             result[1][c] = ParseClassSchedule(grid[LastRowOf(c)], weekday_column_ranges)
        /\ pc = "stats" =>
             /\ statistics[1].total_classes = Cardinality(names)
             /\ statistics[1].total_periods = Cardinality(LessonsOf(names, result[1]))

\* two class rows with the same name, the first with courses and the second
\* without: the class has no lesson and is counted once
C24_Witness ==
  /\ pc = "stats"
  /\ \E c \in DOMAIN result[1] :
       /\ Cardinality(RowsNamed(c)) = 2
       /\ \E r \in RowsNamed(c) :
            /\ r # LastRowOf(c)
            /\ \E d \in WeekdayNames :
                 ParseClassSchedule(grid[r], weekday_column_ranges)[d] # << >>
       /\ \A d \in WeekdayNames : result[1][c][d] = << >>
       /\ statistics[1].total_classes = 1
       /\ statistics[1].total_periods = 0

-----------------------------------------------------------------------------
(* Properties of the windows of the weekdays *)

\* the weekdays whose walked window on the row has column c and whose list has the
\* lesson of the cell at c
Fed(row, schedule, c) ==
  {d \in DOMAIN weekday_column_ranges :
     /\ InWindow(row, weekday_column_ranges[d], c)
     /\ \E i \in LessonsAt(schedule[d], c - weekday_column_ranges[d][1] + 1) :
          ProducedFrom(schedule[d][i], row[c + 1])}

\* C25: whatever the header row, every computed range has start_col <= end_col,
\* and no cell of a class row gives lessons to more than one weekday of the class
C25_WindowsDisjoint ==
  /\ pc \in {"step3", "done", "formatted", "stats"} =>
       \A d \in DOMAIN weekday_column_ranges :
         weekday_column_ranges[d][1] <= weekday_column_ranges[d][2]
  /\ RowParsed =>
       \A c \in 0..(Len(ParsedRow) - 1) :
         NonEmptyCell(ParsedRow, c) => Cardinality(Fed(ParsedRow, ParsedSchedule, c)) <= 1

-----------------------------------------------------------------------------
(* Properties of one cell in the column walk *)

\* the columns of the window walked on the row of the cell (the weekday's range
\* is the whole row) whose cell is not empty after trimming
FilledColumns ==
  LET row == CellRow
  IN  {c \in 0..(Len(row) - 1) : InWindow(row, << 0, Len(row) >>, c) /\ NonEmptyCell(row, c)}

\* the cell was split: its course is doubled and the next period has an empty
\* cell in the window
CellWasSplit ==
  /\ split_result # None
  /\ cell_period < 9
  /\ LET row == CellRow
     IN  InWindow(row, << 0, Len(row) >>, cell_period) /\ ~NonEmptyCell(row, cell_period)

\* C26: _parse_cell never answers 'no lesson' for a cell of the walk, that is for a
\* text that is not empty after trimming and is not 'nan'; so every such cell of
\* the window has a lesson at its period, and the weekday's list has as many lessons
\* as the window has non-empty cells, plus one for each split
C26_EveryCellGivesLesson ==
  /\ CellParsed => period_data # None
  /\ pc = "cell_walked" =>
       LET filled == FilledColumns
       IN  /\ \A c \in filled : LessonsAt(cell_lessons, c + 1) # {}
           /\ Len(cell_lessons) = Cardinality(filled) + (IF CellWasSplit THEN 1 ELSE 0)

\* a cell that starts with a line break and blanks before its course, followed by a
\* non-empty cell: two cells, two lessons
C26_Witness ==
  /\ pc = "cell_walked"
  /\ cell_text = NL \o << " " >> \o << "a" >>
  /\ cell_period = 1
  /\ cell_next = << "a" >>
  /\ Cardinality(FilledColumns) = 2
  /\ Len(cell_lessons) = 2
  /\ cell_lessons[1].course = << "a" >>

\* the activity label _parse_cell gives a text that contains one
ActivityLabel(text) == IF Contains(ClassMeeting, text) THEN ClassMeeting ELSE SunshineSports

\* C27: a cell that contains an activity label is never split: the label is no
\* doubled string, the cell gives exactly one lesson, the activity at the period of
\* the cell, and when the next cell is empty the next period has no lesson, also for
\* a cell that holds the label twice
C27_ActivityNeverSplit ==
  (pc \in {"cell_checked", "cell_walked"} /\ ~NoActivity(CellValue)) =>
    /\ split_result = None
    /\ pc = "cell_walked" =>
         /\ Cardinality(LessonsAt(cell_lessons, cell_period)) = 1
         /\ \A i \in LessonsAt(cell_lessons, cell_period) :
              cell_lessons[i] = Activity(cell_period, ActivityLabel(CellValue))
         /\ ~NonEmptyCell(CellRow, cell_period) => Len(cell_lessons) = 1

\* the cell holds the class-meeting label twice, at period 1 before an empty cell:
\* one class-meeting lesson at period 1 and nothing else
C27_Witness ==
  /\ pc = "cell_walked"
  /\ cell_text = ClassMeeting \o ClassMeeting
  /\ cell_period = 1
  /\ cell_next = << >>
  /\ cell_lessons = << Activity(1, ClassMeeting) >>

\* the teacher of a lesson is null, or a non-empty text without whitespace at
\* its start and at its end
CleanTeacherField(teacher) ==
  \/ teacher = None
  \/ /\ teacher[1] # << >>
     /\ teacher[1][1] \notin Whitespace
     /\ teacher[1][Len(teacher[1])] \notin Whitespace

\* C28: every lesson has a non-empty course and a teacher that is null or a
\* non-empty text without leading or trailing whitespace; the teacher is never the
\* empty text, also for a cell with two line breaks in a row or with a teacher part
\* that is only the class-teacher marker
C28_LessonFieldsClean ==
  /\ (CellParsed /\ period_data # None) =>
       /\ period_data[1].course # << >>
       /\ CleanTeacherField(period_data[1].teacher)
  /\ pc = "cell_walked" =>
       \A i \in 1..Len(cell_lessons) :
         /\ cell_lessons[i].course # << >>
         /\ CleanTeacherField(cell_lessons[i].teacher)

====
